---- MODULE Spec2Model ----
(***************************************************************************)
(* A model of the Abaci0 compilation pipeline: the Static Types and the    *)
(* name mangling of utility/Environment.cpp, the Type Scope / Value Scope  *)
(* chains of utility/Environment.hpp, the Cache of engine/Cache.cpp, the   *)
(* two walkers of codegen/ (type inference and code generation), the       *)
(* runtime surface of lib/Abaci.cpp and the REPL loop of main.cpp.         *)
(*                                                                         *)
(* std::string values are sequences of bytes (numbers 0..255), because     *)
(* mangled() works byte by byte.                                           *)
(***************************************************************************)
EXTENDS Integers, Sequences, FiniteSets, TLC

VARIABLES
    frames,                 \* heap of Environment::DefineScope objects
    current_define_scope,   \* Environment::current_define_scope (a frame id)
    scopes,                 \* Environment::current_scope chain, innermost last
    this_ptrs,              \* Environment::this_ptrs
    functions,              \* Cache::functions
    classes,                \* Cache::classes
    instantiations,         \* Cache::instantiations
    return_depth,           \* ReturnStmt::depth of the parsed return statements
    pc,                     \* where main()'s REPL loop is
    ast,                    \* the statement being compiled
    module,                 \* the JIT's module: the generated code
    error,                  \* the exception in flight, if any
    hist,                   \* history of the session (units run, body checks)
    arg,                    \* input of the pure-function harnesses
    res                     \* output of the pure-function harnesses

vars == <<frames, current_define_scope, scopes, this_ptrs, functions, classes,
          instantiations, return_depth, pc, ast, module, error, hist, arg, res>>

-----------------------------------------------------------------------------
(* AbaciValue::Type, utility/Utility.hpp *)

Nil == 0
Boolean == 1
Integer == 2
Float == 3
Complex == 4
String == 5
Object == 6
TypeMask == 15
Constant == 16
Unset == 127

\* the conversion targets of the real and imaginary projections.  The enum
\* of Utility.hpp does not declare them; ExprCodeGen's ConvNode switch and
\* toType of lib/Abaci.cpp name them as case labels next to Float, so they
\* are tags distinct from every other one: the next free tags stand for them
Real == 7
Imaginary == 8

\* type & AbaciValue::TypeMask
MaskType(t) == t % (TypeMask + 1)

\* (type & AbaciValue::Constant) != 0
IsConstant(t) == (t \div Constant) % 2 = 1

\* type | AbaciValue::Constant
OrConstant(t) == IF IsConstant(t) THEN t ELSE t + Constant

(* Environment::DefineScope::Type is std::variant<AbaciValue::Type,Object>. *)
(* index = 0: a primitive tag; index = 1: an Object descriptor.             *)
Prim(t) == [index |-> 0, type |-> t]
Obj(c, ts) == [index |-> 1, class_name |-> c, object_types |-> ts]
IsPrim(t) == t.index = 0
IsObj(t) == t.index = 1

\* environmentTypeToType
environmentTypeToType(env_type) ==
    IF IsPrim(env_type) THEN MaskType(env_type.type) ELSE Object

\* operator==(Type, Type)
RECURSIVE TypeEq(_, _)
TypeEq(lhs, rhs) ==
    IF lhs.index # rhs.index THEN FALSE
    ELSE IF IsPrim(lhs) THEN MaskType(lhs.type) = MaskType(rhs.type)
    ELSE IF lhs.class_name # rhs.class_name THEN FALSE
    ELSE IF Len(lhs.object_types) # Len(rhs.object_types) THEN FALSE
    ELSE \A i \in 1..Len(lhs.object_types) :
            TypeEq(lhs.object_types[i], rhs.object_types[i])

-----------------------------------------------------------------------------
(* mangled(), utility/Environment.cpp *)

\* one digit of std::to_chars: '0'..'9', 'a'..'f'
DigitChar(d) == IF d < 10 THEN 48 + d ELSE 87 + d

\* std::to_chars(buffer, ..., value, base)
RECURSIVE ToChars(_, _)
ToChars(value, base) ==
    IF value < base THEN <<DigitChar(value)>>
    ELSE ToChars(value \div base, base) \o <<DigitChar(value % base)>>

\* isalnum(ch) in the C locale
IsAlnum(ch) ==
    \/ (ch >= 48 /\ ch <= 57)
    \/ (ch >= 65 /\ ch <= 90)
    \/ (ch >= 97 /\ ch <= 122)

\* the body of the first loop of mangled(): one byte of the name
MangleChar(ch) ==
    IF ch >= 128 \/ ch = 39 THEN <<46>> \o ToChars(ch, 16)
    ELSE IF IsAlnum(ch) \/ ch = 95 \/ ch = 46 THEN <<ch>>
    ELSE <<0>>     \* UnexpectedError0(BadChar): no parsed identifier has such a byte

RECURSIVE MangleName(_)
MangleName(name) ==
    IF name = <<>> THEN <<>>
    ELSE MangleChar(Head(name)) \o MangleName(Tail(name))

RECURSIVE mangled(_, _)
\* the body of the second loop of mangled(): one parameter type
MangleType(parameter_type) ==
    IF IsPrim(parameter_type)
    THEN <<46>> \o ToChars(MaskType(parameter_type.type), 10)
    ELSE <<46>> \o mangled(parameter_type.class_name, <<>>) \o <<95>>
              \o mangled(<<>>, parameter_type.object_types) \o <<95>>

RECURSIVE MangleTypes(_)
MangleTypes(types) ==
    IF types = <<>> THEN <<>>
    ELSE MangleType(Head(types)) \o MangleTypes(Tail(types))

mangled(name, types) == MangleName(name) \o MangleTypes(types)

-----------------------------------------------------------------------------
(* Exceptions: utility/Report.hpp's LogicError (a language error) and       *)
(* UnexpectedError (an internal error); Crash is a fault that is no C++     *)
(* exception (a null dereference, a failed assert); StdException is an      *)
(* exception of the standard library (std::bad_variant_access,              *)
(* std::out_of_range), which main() catches like the other two.             *)
NoError == [kind |-> "None", what |-> ""]
LogicError(what) == [kind |-> "LogicError", what |-> what]
UnexpectedError(what) == [kind |-> "UnexpectedError", what |-> what]
StdException(what) == [kind |-> "StdException", what |-> what]
Crash(what) == [kind |-> "Crash", what |-> what]

EmptyMap == <<>>

-----------------------------------------------------------------------------
(* Environment::DefineScope, utility/Environment.cpp.  A walker state `st`  *)
(* carries the Environment's define scopes (frames, cur), the Cache         *)
(* (functions, classes, instantiations), the walker object's own fields     *)
(* (gen), the exception in flight (err) and the observation log (log).      *)

RETURN_VAR == <<95, 114, 101, 116, 117, 114, 110>>     \* "_return"
THIS_VAR == <<95, 116, 104, 105, 115>>                 \* "_this"

Failed(st) == st.err.kind # "None"
Throw(st, e) == [st EXCEPT !.err = e]

\* DefineScope::isDefined
RECURSIVE isDefined(_, _, _)
isDefined(fr, id, name) ==
    IF name \in DOMAIN fr[id].vars THEN TRUE
    ELSE IF fr[id].enclosing # 0 THEN isDefined(fr, fr[id].enclosing, name)
    ELSE FALSE

\* DefineScope::getType; callers establish isDefined first, the others get
\* UnexpectedError(VarNotExist) from their own guard
RECURSIVE getType(_, _, _)
getType(fr, id, name) ==
    IF name \in DOMAIN fr[id].vars THEN fr[id].vars[name]
    ELSE getType(fr, fr[id].enclosing, name)

\* DefineScope::getType with its last branch: the type, or the exception
RECURSIVE tryGetType(_, _, _)
tryGetType(fr, id, name) ==
    IF name \in DOMAIN fr[id].vars THEN [err |-> NoError, type |-> fr[id].vars[name]]
    ELSE IF fr[id].enclosing # 0 THEN tryGetType(fr, fr[id].enclosing, name)
    ELSE [err |-> UnexpectedError("VarNotExist"), type |-> <<>>]

\* DefineScope::getDepth
RECURSIVE getDepth(_, _)
getDepth(fr, id) ==
    IF fr[id].enclosing = 0 THEN 0 ELSE 1 + getDepth(fr, fr[id].enclosing)

\* a setType that refuses a name bound anywhere in the chain
setTypeUnlessDefined(st, name, type) ==
    IF isDefined(st.frames, st.cur, name)
    THEN Throw(st, UnexpectedError("VarExists"))
    ELSE [st EXCEPT !.frames[st.cur].vars = (name :> type) @@ @]

\* DefineScope::setType on the current define scope
setType(st, name, type) ==
    IF name \in DOMAIN st.frames[st.cur].vars
    THEN Throw(st, UnexpectedError("VarExists"))
    ELSE [st EXCEPT !.frames[st.cur].vars = (name :> type) @@ @]

\* a new define scope that is always nested in the current one
beginDefineScopeNested(st, parent) ==
    [st EXCEPT !.frames = Append(@, [enclosing |-> st.cur, vars |-> EmptyMap]),
               !.cur = Len(st.frames) + 1]

\* Environment::beginDefineScope(parent); parent = 0 is the null default
beginDefineScope(st, parent) ==
    [st EXCEPT !.frames = Append(@, [enclosing |-> IF parent # 0 THEN parent ELSE st.cur,
                                       vars |-> EmptyMap]),
               !.cur = Len(st.frames) + 1]

\* Environment::endDefineScope
endDefineScope(st) == [st EXCEPT !.cur = st.frames[st.cur].enclosing]

\* Environment::setCurrentDefineScope
setCurrentDefineScope(st, scope) == [st EXCEPT !.cur = scope]

\* Environment::getGlobalDefineScope: the first frame ever made
GlobalDefineScope == 1

-----------------------------------------------------------------------------
(* Cache, engine/Cache.cpp *)

InstKey(inst) == mangled(inst.name, inst.parameter_types)

\* the keys of a table, in table order
TableKeys(table) == [i \in 1..Len(table) |-> InstKey(table[i])]

\* position of the first instantiation with this mangled name, 0 if none
FindInst(table, key) ==
    IF \E i \in 1..Len(table) : InstKey(table[i]) = key
    THEN CHOOSE i \in 1..Len(table) :
            /\ InstKey(table[i]) = key
            /\ \A j \in 1..(i - 1) : InstKey(table[j]) # key
    ELSE 0

\* a table as it is: what stands where the found entry should be erased
KeepFirst(table, key) == table

\* instantiations.erase(find_if(...)): drop the first entry with this key
EraseFirst(table, key) ==
    LET i == FindInst(table, key)
    IN  IF i = 0 THEN table
        ELSE [j \in 1..(Len(table) - 1) |-> IF j < i THEN table[j] ELSE table[j + 1]]

\* a table that is searched for finished entries only: a call re-creates
\* the entry unless it meets a placeholder
CreateUnlessPlaceholder(table, mangled_name) ==
    LET i == FindInst(table, mangled_name)
    IN  i = 0 \/ table[i].scope # 0

\* the search loop of addFunctionInstantiation: create_instantiation
CreateInstantiation(table, mangled_name) == FindInst(table, mangled_name) = 0

\* Cache::getCacheType
getCacheType(st, name) ==
    IF name \in DOMAIN st.functions THEN "CacheFunction"
    ELSE IF name \in DOMAIN st.classes THEN "CacheClass"
    ELSE "CacheNone"

\* Cache::addFunctionTemplate
addFunctionTemplate(st, name, parameters, body) ==
    IF name \in DOMAIN st.functions THEN Throw(st, LogicError("FuncExists"))
    ELSE [st EXCEPT !.functions = (name :> [parameters |-> parameters, body |-> body]) @@ @]

\* Cache::addClassTemplate
addClassTemplate(st, name, variables, methods) ==
    IF name \in DOMAIN st.classes THEN Throw(st, LogicError("ClassExists"))
    ELSE [st EXCEPT !.classes = (name :> [variables |-> variables, methods |-> methods]) @@ @]

\* what one call of getMemberIndex returned (index, counted from 0 as
\* in the source) or that it threw, for the observation log
LogMember(st, pass, class_name, member, idx) ==
    [st EXCEPT !.log.members = @ \cup
        {[pass |-> pass, class_name |-> class_name, member |-> member,
          found |-> idx # 0, index |-> idx - 1]}]

\* a getMemberIndex that counts from the end of the member list
getMemberIndexFromEnd(cache_class, member) ==
    IF \E i \in 1..Len(cache_class.variables) : cache_class.variables[i] = member
    THEN Len(cache_class.variables) + 1
            - CHOOSE i \in 1..Len(cache_class.variables) :
                /\ cache_class.variables[i] = member
                /\ \A j \in 1..(i - 1) : cache_class.variables[j] # member
    ELSE 0

\* Cache::getMemberIndex, counted from 1; 0 stands where it throws
getMemberIndex(cache_class, member) ==
    IF \E i \in 1..Len(cache_class.variables) : cache_class.variables[i] = member
    THEN CHOOSE i \in 1..Len(cache_class.variables) :
            /\ cache_class.variables[i] = member
            /\ \A j \in 1..(i - 1) : cache_class.variables[j] # member
    ELSE 0

\* Cache::getFunctionInstantiationType; Prim(Unset) stands where it throws,
\* the caller tests HasInst
HasInst(st, name, types) == FindInst(st.instantiations, mangled(name, types)) # 0
getFunctionInstantiationType(st, name, types) ==
    LET i == FindInst(st.instantiations, mangled(name, types))
    IN  IF i = 0 THEN Prim(Unset) ELSE st.instantiations[i].return_type

\* bag insertion for the observation log
BagAdd(bag, key) ==
    IF key \in DOMAIN bag THEN [bag EXCEPT ![key] = @ + 1] ELSE (key :> 1) @@ bag

\* TypeCodeGen::get
GenGet(gen) == IF gen.type_is_set THEN gen.return_type ELSE Prim(Nil)

NewGen(is_function) ==
    [is_function |-> is_function, type_is_set |-> FALSE, return_type |-> Prim(Nil)]

-----------------------------------------------------------------------------
(* Type inference: TypeEvalGen and TypeCodeGen, codegen/TypeCodeGen.cpp.    *)
(* An expression walker returns R(st, type): the state after the walk and   *)
(* the Static Type left on its stack (meaningless once st has failed).      *)

R(st, type) == [st |-> st, type |-> type]

Max(a, b) == IF a >= b THEN a ELSE b
Min(a, b) == IF a <= b THEN a ELSE b

\* promotion that keeps the narrower of two numeric tags
promoteNarrow(type_a, type_b) ==
    IF ~IsPrim(type_a) \/ ~IsPrim(type_b)
    THEN [err |-> LogicError("NoObject"), type |-> Unset]
    ELSE [err |-> NoError, type |-> Min(type_a.type, type_b.type)]

\* TypeEvalGen::promote
promote(type_a, type_b) ==
    IF ~IsPrim(type_a) \/ ~IsPrim(type_b)
    THEN [err |-> LogicError("NoObject"), type |-> Unset]
    ELSE LET a == type_a.type
             b == type_b.type
         IN  IF a = b THEN [err |-> NoError, type |-> a]
             ELSE IF a = Unset \/ b = Unset THEN [err |-> NoError, type |-> Unset]
             ELSE IF a < String /\ b < String THEN [err |-> NoError, type |-> Max(a, b)]
             ELSE [err |-> LogicError("BadType"), type |-> Unset]

\* what one InitStmt recorded with setType, for the observation log
LogInit(st, pass, s, type) ==
    [st EXCEPT !.log.inits = @ \cup
        {[pass |-> pass, name |-> s.name, equals |-> s.assign = "Equal",
          primitive |-> IsPrim(type),
          constant |-> IsPrim(type) /\ IsConstant(type.type),
          global |-> st.frames[st.cur].enclosing = 0]}]

\* what one addFunctionInstantiation call did, for the observation log
LogCall(before, after, key) ==
    [after EXCEPT !.log.calls = @ \cup
        {[hit |-> FindInst(before.instantiations, key) # 0,
          finished |-> FindInst(before.instantiations, key) # 0
                       /\ before.instantiations[FindInst(before.instantiations, key)].scope # 0,
          same_table |-> after.instantiations = before.instantiations,
          checked |-> Len(after.log.checked) - Len(before.log.checked)]},
                  !.log.tables = @ \cup {TableKeys(after.instantiations)}]

\* what one turn of a parameter loop bound, for the observation log
LogBind(st, i, nargs) ==
    IF Failed(st) THEN st
    ELSE [st EXCEPT !.log.binds = @ \cup {[parameter |-> i, arguments |-> nargs]}]

\* the define scopes from id outwards, innermost first
RECURSIVE ChainOf(_, _)
ChainOf(fr, id) == IF id = 0 THEN <<>> ELSE <<id>> \o ChainOf(fr, fr[id].enclosing)

\* the names a chain of define scopes binds
Visible(fr, id) == UNION {DOMAIN fr[ChainOf(fr, id)[k]].vars : k \in 1..Len(ChainOf(fr, id))}

\* what one typed call did to the current define scope, for the
\* observation log: the chain of the call site, the parameter frame, the
\* frame left current
LogSite(st, current_scope, parameter_scope) ==
    [st EXCEPT !.log.sites = @ \cup
        {[site |-> ChainOf(st.frames, current_scope), param |-> parameter_scope,
          after |-> st.cur]}]

\* the chain in which one template body was checked, for the observation
\* log: body_scope is the frame the statement list of the body opened
LogBody(st, name, key, parameter_scope, body_scope, return_type) ==
    [st EXCEPT !.log.bodies = @ \cup
        {[name |-> name, key |-> key, param |-> parameter_scope,
          chain |-> ChainOf(st.frames, body_scope), return_type |-> return_type]}]

\* a return statement that is not the last of its statement list, for the
\* observation log: whether the loop over the list refused it
LogMisplaced(st, stmt, rejected) ==
    [st EXCEPT !.log.misplaced = @ \cup {[id |-> stmt.id, rejected |-> rejected]}]

\* what codeGen(ReturnStmt) met and did, for the observation log: whether
\* the return type was fixed and to what, the type of the expression,
\* whether the statement was rejected, and the return type it left
LogReturn(st, before, result, rejected) ==
    [st EXCEPT !.log.returns = @ \cup
        {[type_is_set |-> before.type_is_set, return_type |-> before.return_type,
          result |-> result, rejected |-> rejected,
          left_set |-> st.gen.type_is_set, left |-> st.gen.return_type]}]

\* The walkers call one another through Walk, the one point of recursion of
\* the model: Walk(f, x) is f applied to the arguments x.
RECURSIVE Walk(_, _)

RECURSIVE BindParameters(_, _, _, _), TypeMethods(_, _, _), TypeMembers(_, _, _, _)

\* the argument loops: one fresh TypeEvalGen per argument, in order
TypeEvalArgs(st, args, i, types) ==
    IF i > Len(args) THEN [st |-> st, types |-> types]
    ELSE LET r == Walk("TypeEvalGen", <<st, args[i]>>)
         IN  IF Failed(r.st) THEN [st |-> r.st, types |-> types]
             ELSE Walk("TypeEvalArgs", <<r.st, args, i + 1, Append(types, r.type)>>)

\* the loop of ListNode Left: list[i] is an operator, list[i + 1] its operand
TypeLeft(st, list, i, type) ==
    IF i > Len(list) THEN R(st, type)
    ELSE LET op == list[i].op
             r == Walk("TypeEvalGen", <<st, list[i + 1]>>)
         IN  IF Failed(r.st) THEN r
             ELSE LET p == promote(type, r.type)
                      new_type == IF p.type = Integer /\ op = "Divide" THEN Float ELSE p.type
                  IN  IF p.err.kind # "None" THEN R(Throw(r.st, p.err), type)
                      ELSE Walk("TypeLeft", <<r.st, list, i + 2, Prim(new_type)>>)

\* the loop of ListNode Right, from the back: list[i] is an operand
TypeRight(st, list, i, type) ==
    IF i < 1 THEN R(st, type)
    ELSE LET r == Walk("TypeEvalGen", <<st, list[i]>>)
         IN  IF Failed(r.st) THEN r
             ELSE LET p1 == promote(type, Prim(Float))
                      p2 == promote(Prim(p1.type), r.type)
                  IN  IF p1.err.kind # "None" THEN R(Throw(r.st, p1.err), type)
                      ELSE IF p2.err.kind # "None" THEN R(Throw(r.st, p2.err), type)
                      ELSE Walk("TypeRight", <<r.st, list, i - 2, Prim(p2.type)>>)

\* the parameter loops: the i-th parameter gets the i-th argument type,
\* primitives flagged Constant.  The loop runs over the parameters and reads
\* the argument types through an unchecked iterator: with fewer arguments
\* than parameters `*arg_type++` reads past the end of the vector, which is
\* undefined; st.overrun is what that read does in this run, a fault or a
\* value of some type (the type it yields is then bound like any other).
BindParameters(st, parameters, types, i) ==
    IF i > Len(parameters) THEN st
    ELSE IF i > Len(types) /\ st.overrun.fault
    THEN Throw(st, Crash("ArgumentTypesOverrun"))
    ELSE LET read == IF i > Len(types) THEN st.overrun.type ELSE types[i]
             type == IF IsPrim(read) THEN Prim(OrConstant(read.type)) ELSE read
             s1 == LogBind(setType(st, parameters[i], type), i, Len(types))
         IN  IF Failed(s1) THEN s1 ELSE BindParameters(s1, parameters, types, i + 1)

\* the CacheFunction branch of CallNode (and the body of FunctionCall)
TypeCall(st, name, args) ==
    LET cache_function == st.functions[name]
        a == Walk("TypeEvalArgs", <<st, args, 1, <<>>>>)
        current_scope == a.st.cur
        s1 == beginDefineScope(a.st, GlobalDefineScope)
        s2 == BindParameters(s1, cache_function.parameters, a.types, 1)
        s3 == Walk("addFunctionInstantiation", <<s2, name, a.types>>)
        return_type == getFunctionInstantiationType(s3, name, a.types)
        s4 == setType(s3, RETURN_VAR, return_type)
    IN  IF Failed(a.st) THEN R(a.st, Prim(Unset))
        ELSE IF Failed(s2) THEN R(s2, Prim(Unset))
        ELSE IF Failed(s3) THEN R(s3, Prim(Unset))
        ELSE IF Failed(s4) THEN R(s4, Prim(Unset))
        ELSE R(LogSite(setCurrentDefineScope(s4, current_scope), current_scope, s1.cur),
               return_type)

\* the member loops of MethodNode, DataNode, DataAssignStmt and MethodCall:
\* the type of the member the list names, from the type of the variable
TypeMembers(st, type, member_list, i) ==
    IF i > Len(member_list) THEN R(st, type)
    ELSE IF ~IsObj(type) THEN R(Throw(st, LogicError("BadObject")), type)
    ELSE IF type.class_name \notin DOMAIN st.classes
    THEN R(Throw(st, UnexpectedError("ClassNotExist")), type)
    ELSE LET idx == getMemberIndex(st.classes[type.class_name], member_list[i])
             s1 == LogMember(st, "type", type.class_name, member_list[i], idx)
         IN  IF idx = 0 THEN R(Throw(s1, LogicError("DataNotExist")), type)
             ELSE IF idx > Len(type.object_types)
             THEN R(Throw(s1, StdException("out_of_range")), type)
             ELSE TypeMembers(s1, type.object_types[idx], member_list, i + 1)

\* MethodNode, and the body of codeGen(MethodCall): the receiver, the
\* "Class.method" template, the arguments, the parameter frame with _this
TypeMethodCall(st, call) ==
    LET m == TypeMembers(st, getType(st.frames, st.cur, call.name), call.member_list, 1)
        type == m.type
        function_name == type.class_name \o <<46>> \o call.method
        cache_function == st.functions[function_name]
        a == Walk("TypeEvalArgs", <<st, call.args, 1, <<>>>>)
        current_scope == a.st.cur
        s1 == setType(beginDefineScope(a.st, GlobalDefineScope), THIS_VAR, type)
        s2 == BindParameters(s1, cache_function.parameters, a.types, 1)
        s3 == Walk("addFunctionInstantiation", <<s2, function_name, a.types>>)
        return_type == getFunctionInstantiationType(s3, function_name, a.types)
        s4 == setType(s3, RETURN_VAR, return_type)
    IN  IF ~isDefined(st.frames, st.cur, call.name)
        THEN R(Throw(st, LogicError("VarNotExist")), Prim(Unset))
        ELSE IF Failed(m.st) THEN R(m.st, Prim(Unset))
        ELSE IF ~IsObj(type)
        THEN R(Throw(st, StdException("bad_variant_access")), Prim(Unset))
        ELSE IF function_name \notin DOMAIN st.functions
        THEN R(Throw(st, UnexpectedError("FuncNotExist")), Prim(Unset))
        ELSE IF Failed(a.st) THEN R(a.st, Prim(Unset))
        ELSE IF Failed(s1) THEN R(s1, Prim(Unset))
        ELSE IF Failed(s2) THEN R(s2, Prim(Unset))
        ELSE IF Failed(s3) THEN R(s3, Prim(Unset))
        ELSE IF Failed(s4) THEN R(s4, Prim(Unset))
        ELSE R(LogSite(setCurrentDefineScope(s4, current_scope), current_scope, s1.cur),
               return_type)

\* the when loop of codeGen(CaseStmt)
TypeCases(st, matches, i) ==
    IF i > Len(matches) THEN st
    ELSE LET r == Walk("TypeEvalGen", <<st, matches[i].expression>>)
             s1 == Walk("TypeCodeGenList", <<r.st, matches[i].block>>)
         IN  IF Failed(r.st) THEN r.st
             ELSE IF Failed(s1) THEN s1
             ELSE Walk("TypeCases", <<s1, matches, i + 1>>)

\* Cache::addFunctionInstantiation
addFunctionInstantiation(st, name, types) ==
    IF name \notin DOMAIN st.functions THEN Throw(st, LogicError("FuncNotExist"))
    ELSE IF Len(types) # Len(st.functions[name].parameters)
    THEN Throw(st, LogicError("WrongArgs"))
    ELSE LET mangled_name == mangled(name, types)
             create_instantiation == CreateInstantiation(st.instantiations, mangled_name)
             s1 == [st EXCEPT
                      !.instantiations = Append(@, [name |-> name, parameter_types |-> types,
                                                    return_type |-> Prim(Unset), scope |-> 0]),
                      !.gen = NewGen(TRUE),
                      !.log.checked = Append(@, mangled_name),
                      !.log.tables = @ \cup
                          {Append(TableKeys(st.instantiations), mangled_name)}]
             s2 == Walk("TypeCodeGenList", <<s1, st.functions[name].body>>)
             s3 == [s2 EXCEPT
                      !.instantiations =
                          Append(EraseFirst(@, mangled_name),
                                 [name |-> name, parameter_types |-> types,
                                  return_type |-> GenGet(s2.gen), scope |-> s2.cur]),
                      !.gen = st.gen]
         IN  IF ~create_instantiation THEN LogCall(st, st, mangled_name)
             ELSE IF Failed(s2) THEN s2
             ELSE IF st.functions[name].body = <<>> THEN LogCall(st, s3, mangled_name)
             ELSE LogCall(st, LogBody(s3, name, mangled_name, st.cur, Len(st.frames) + 1,
                                      GenGet(s2.gen)),
                          mangled_name)

\* TypeEvalGen::operator()
TypeEvalGen(st, node) ==
    CASE node.node = "ValueNode" -> R(st, Prim(node.type))
      [] node.node = "VariableNode" ->
            IF ~isDefined(st.frames, st.cur, node.name)
            THEN R(Throw(st, LogicError("VarNotExist")), Prim(Unset))
            ELSE LET type == getType(st.frames, st.cur, node.name)
                 IN  R(st, IF IsPrim(type) THEN Prim(MaskType(type.type)) ELSE type)
      [] node.node = "CallNode" ->
            IF getCacheType(st, node.name) = "CacheFunction"
            THEN Walk("TypeCall", <<st, node.name, node.args>>)
            ELSE IF getCacheType(st, node.name) = "CacheClass"
            THEN LET a == Walk("TypeEvalArgs", <<st, node.args, 1, <<>>>>)
                 IN  R(a.st, Obj(node.name, a.types))
            ELSE R(Throw(st, LogicError("CallableNotExist")), Prim(Unset))
      [] node.node = "MethodNode" -> Walk("TypeMethodCall", <<st, node>>)
      [] node.node = "DataNode" ->
            IF ~isDefined(st.frames, st.cur, node.name)
            THEN R(Throw(st, LogicError("VarNotExist")), Prim(Unset))
            ELSE TypeMembers(st, getType(st.frames, st.cur, node.name), node.member_list, 1)
      [] node.node = "InputNode" -> R(st, Prim(String))
      [] node.node = "ConvNode" -> R(st, Prim(node.to_type))
      [] node.node = "ListNode" ->
            CASE node.association = "Left" ->
                    LET r == Walk("TypeEvalGen", <<st, node.list[1]>>)
                    IN  IF Failed(r.st) THEN r ELSE Walk("TypeLeft", <<r.st, node.list, 2, r.type>>)
              [] node.association = "Right" ->
                    LET r == Walk("TypeEvalGen", <<st, node.list[Len(node.list)]>>)
                    IN  IF Failed(r.st) THEN r
                        ELSE Walk("TypeRight", <<r.st, node.list, Len(node.list) - 2, r.type>>)
              [] node.association = "Unary" ->
                    LET r == Walk("TypeEvalGen", <<st, node.list[Len(node.list)]>>)
                    IN  IF Failed(r.st) THEN r
                        ELSE IF \E i \in 1..(Len(node.list) - 1) : node.list[i].op = "Not"
                        THEN R(r.st, Prim(Boolean))
                        ELSE r
              [] node.association = "Boolean" ->
                    LET r == Walk("TypeEvalGen", <<st, node.list[1]>>)
                    IN  IF Failed(r.st) THEN r
                        ELSE IF Len(node.list) > 1 THEN R(r.st, Prim(Boolean))
                        ELSE r
              [] OTHER -> R(Throw(st, UnexpectedError("BadAssociation")), Prim(Unset))
      [] OTHER -> R(Throw(st, UnexpectedError("BadNode")), Prim(Unset))

\* TypeCodeGen::operator()(const StmtList&)
TypeCodeGenList(st, stmts) ==
    IF stmts = <<>> THEN st
    ELSE LET s1 == Walk("TypeCodeGenSeq", <<beginDefineScope(st, 0), stmts, 1, TRUE>>)
         IN  IF Failed(s1) THEN s1 ELSE endDefineScope(s1)

\* the statement loops; in_list: the loop of a StmtList, which refuses a
\* return statement that is not the last one
TypeCodeGenSeq(st, stmts, i, in_list) ==
    IF i > Len(stmts) THEN st
    ELSE IF in_list /\ stmts[i].stmt = "ReturnStmt" /\ i # Len(stmts)
    THEN LogMisplaced(Throw(st, LogicError("ReturnAtEnd")), stmts[i], TRUE)
    ELSE LET s0 == IF stmts[i].stmt = "ReturnStmt" /\ i # Len(stmts)
                   THEN LogMisplaced(st, stmts[i], FALSE) ELSE st
             s1 == Walk("TypeCodeGenStmt", <<s0, stmts[i]>>)
         IN  IF Failed(s1) THEN s1 ELSE Walk("TypeCodeGenSeq", <<s1, stmts, i + 1, in_list>>)

\* the method loop of codeGen(Class): "Class.method" templates
TypeMethods(st, class_template, i) ==
    IF i > Len(class_template.methods) THEN st
    ELSE LET method == class_template.methods[i]
             s1 == addFunctionTemplate(st, class_template.name \o <<46>> \o method.name,
                                       method.parameters, method.function_body)
         IN  IF Failed(s1) THEN s1 ELSE TypeMethods(s1, class_template, i + 1)

\* TypeCodeGen::codeGen, one branch per statement kind
TypeCodeGenStmt(st, s) ==
    CASE s.stmt = "CommentStmt" -> st
      [] s.stmt = "PrintStmt" -> Walk("TypeEvalGen", <<st, s.expression>>).st
      [] s.stmt = "InitStmt" ->
            IF isDefined(st.frames, st.cur, s.name)
            THEN Throw(st, LogicError("VarExists"))
            ELSE LET r == Walk("TypeEvalGen", <<st, s.value>>)
                     result == IF IsPrim(r.type) /\ s.assign = "Equal"
                               THEN Prim(OrConstant(r.type.type)) ELSE r.type
                 IN  IF Failed(r.st) THEN r.st
                     ELSE LogInit(setType(r.st, s.name, result), "type", s, result)
      [] s.stmt = "AssignStmt" ->
            IF ~isDefined(st.frames, st.cur, s.name)
            THEN Throw(st, LogicError("VarNotExist"))
            ELSE IF IsPrim(getType(st.frames, st.cur, s.name))
                    /\ IsConstant(getType(st.frames, st.cur, s.name).type)
            THEN Throw(st, LogicError("NoConstantAssign"))
            ELSE LET r == Walk("TypeEvalGen", <<st, s.value>>)
                     result == r.type
                     existing_type == getType(r.st.frames, r.st.cur, s.name)
                 IN  IF Failed(r.st) THEN r.st
                     ELSE IF IsPrim(result) /\ IsPrim(existing_type)
                     THEN IF result.type # existing_type.type
                          THEN Throw(r.st, LogicError("VarType")) ELSE r.st
                     ELSE IF IsObj(result) /\ IsObj(existing_type)
                     THEN IF result.class_name # existing_type.class_name
                             \/ ~TypeEq(result, existing_type)
                          THEN Throw(r.st, LogicError("ObjectType")) ELSE r.st
                     ELSE r.st
      [] s.stmt = "IfStmt" ->
            LET r == Walk("TypeEvalGen", <<st, s.condition>>)
                s1 == Walk("TypeCodeGenList", <<r.st, s.true_test>>)
            IN  IF Failed(r.st) THEN r.st
                ELSE IF Failed(s1) THEN s1
                ELSE Walk("TypeCodeGenList", <<s1, s.false_test>>)
      [] s.stmt = "WhileStmt" ->
            LET r == Walk("TypeEvalGen", <<beginDefineScope(st, 0), s.condition>>)
                s1 == Walk("TypeCodeGenSeq", <<r.st, s.loop_block, 1, FALSE>>)
            IN  IF Failed(r.st) THEN r.st
                ELSE IF Failed(s1) THEN s1
                ELSE endDefineScope(s1)
      [] s.stmt = "RepeatStmt" ->
            LET s1 == Walk("TypeCodeGenSeq", <<beginDefineScope(st, 0), s.loop_block, 1, FALSE>>)
                r == Walk("TypeEvalGen", <<s1, s.condition>>)
            IN  IF Failed(s1) THEN s1
                ELSE IF Failed(r.st) THEN r.st
                ELSE endDefineScope(r.st)
      [] s.stmt = "CaseStmt" ->
            LET r == Walk("TypeEvalGen", <<st, s.case_value>>)
                s1 == Walk("TypeCases", <<r.st, s.matches, 1>>)
            IN  IF Failed(r.st) THEN r.st
                ELSE IF Failed(s1) THEN s1
                ELSE Walk("TypeCodeGenList", <<s1, s.unmatched>>)
      [] s.stmt = "Function" ->
            IF st.frames[st.cur].enclosing # 0 THEN Throw(st, LogicError("FuncTopLevel"))
            ELSE addFunctionTemplate(st, s.name, s.parameters, s.function_body)
      [] s.stmt = "FunctionCall" ->
            IF s.name \notin DOMAIN st.functions
            THEN Throw(st, UnexpectedError("FuncNotExist"))
            ELSE Walk("TypeCall", <<st, s.name, s.args>>).st
      [] s.stmt = "ReturnStmt" ->
            IF ~st.gen.is_function THEN Throw(st, LogicError("ReturnOnlyInFunc"))
            ELSE LET r == Walk("TypeEvalGen", <<st, s.expression>>)
                     result == r.type
                     depth == getDepth(r.st.frames, r.st.cur)
                     s1 == [r.st EXCEPT !.return_depth = (s.id :> depth) @@ @]
                 IN  IF Failed(r.st) THEN r.st
                     ELSE IF ~IsPrim(result) \/ result.type # Unset
                     THEN IF r.st.gen.type_is_set /\ ~TypeEq(result, r.st.gen.return_type)
                          THEN LogReturn(Throw(r.st, LogicError("FuncTypeSet")),
                                         r.st.gen, result, TRUE)
                          ELSE LogReturn([s1 EXCEPT !.gen.return_type = result,
                                                    !.gen.type_is_set = TRUE],
                                         r.st.gen, result, FALSE)
                     ELSE LogReturn(s1, r.st.gen, result, FALSE)
      [] s.stmt = "Class" ->
            LET s1 == TypeMethods(st, s, 1)
            IN  IF Failed(s1) THEN s1
                ELSE addClassTemplate(s1, s.name, s.variables,
                                      [i \in 1..Len(s.methods) |-> s.methods[i].name])
      [] s.stmt = "DataAssignStmt" ->
            IF ~isDefined(st.frames, st.cur, s.name)
            THEN Throw(st, LogicError("VarNotExist"))
            ELSE LET m == TypeMembers(st, getType(st.frames, st.cur, s.name),
                                      s.member_list, 1)
                     r == Walk("TypeEvalGen", <<m.st, s.value>>)
                 IN  IF Failed(m.st) THEN m.st
                     ELSE IF Failed(r.st) THEN r.st
                     ELSE IF ~TypeEq(r.type, m.type) THEN Throw(r.st, LogicError("DataType"))
                     ELSE r.st
      [] s.stmt = "MethodCall" -> Walk("TypeMethodCall", <<st, s>>).st
      [] s.stmt = "ExpressionStmt" -> Throw(st, LogicError("NoExpression"))
      [] OTHER -> Throw(st, UnexpectedError("BadStmtNode"))

-----------------------------------------------------------------------------
(* Code generation: ExprCodeGen, codegen/ExprCodeGen.cpp.  An expression    *)
(* walker returns E(st, type, code): the Static Type it pushes (the second  *)
(* of its StackType) and the code it emitted (the first), as a tree.        *)

E(st, type, code) == [st |-> st, type |-> type, code |-> code]

NoCode == [op |-> "none"]

\* the frame of the chain from id that holds name (callers establish isDefined)
RECURSIVE FrameOf(_, _, _)
FrameOf(fr, id, name) ==
    IF name \in DOMAIN fr[id].vars THEN id ELSE FrameOf(fr, fr[id].enclosing, name)

\* the operators each operand type accepts in a ListNode
LeftOperators(tag) ==
    CASE tag = Boolean -> {"BitAnd", "BitXor", "BitOr"}
      [] tag = Integer -> {"Plus", "Minus", "Times", "Modulo", "FloorDivide", "Divide",
                           "BitAnd", "BitXor", "BitOr"}
      [] tag = Float -> {"Plus", "Minus", "Times", "Divide"}
      [] tag = Complex -> {"Plus", "Minus", "Times", "Divide"}
      [] tag = String -> {"Plus"}
      [] OTHER -> {}

UnaryOperators(tag) ==
    CASE tag = Boolean -> {"Not", "Compl"}
      [] tag = Integer -> {"Minus", "Not", "Compl"}
      [] tag = Float -> {"Minus", "Not"}
      [] tag = Complex -> {"Minus"}
      [] OTHER -> {}

BooleanOperators(tag) ==
    CASE tag \in {Boolean, Integer, Float} ->
            {"Equal", "NotEqual", "Less", "LessEqual", "GreaterEqual", "Greater", "And", "Or"}
      [] tag \in {Complex, String} -> {"Equal", "NotEqual"}
      [] OTHER -> {}

\* ExprCodeGen::promote: the tag both operands are converted to
exprPromote(a, b) ==
    IF IsObj(a) \/ IsObj(b) THEN [err |-> UnexpectedError("NoObject"), type |-> Unset]
    ELSE IF TypeEq(a, b) THEN [err |-> NoError, type |-> environmentTypeToType(a)]
    ELSE LET type == Max(environmentTypeToType(a), environmentTypeToType(b))
         IN  IF type \in {Boolean, Integer, Float, Complex}
             THEN [err |-> NoError, type |-> type]
             ELSE [err |-> UnexpectedError("BadCoerceTypes"), type |-> Unset]

RECURSIVE ExprUnary(_, _, _, _, _), ExprBindParameters(_, _, _, _)

\* the argument loops: one fresh ExprCodeGen per argument, in order
ExprCodeArgs(st, args, i, types, codes) ==
    IF i > Len(args) THEN [st |-> st, types |-> types, codes |-> codes]
    ELSE LET r == Walk("ExprCodeGen", <<st, args[i]>>)
         IN  IF Failed(r.st) THEN [st |-> r.st, types |-> types, codes |-> codes]
             ELSE Walk("ExprCodeArgs", <<r.st, args, i + 1, Append(types, r.type), Append(codes, r.code)>>)

\* the loop of ListNode Left; type is result.second, code is result.first
ExprLeft(st, list, i, type, code) ==
    IF i > Len(list) THEN E(st, type, code)
    ELSE LET op == list[i].op
             r == Walk("ExprCodeGen", <<st, list[i + 1]>>)
             p == IF ~TypeEq(r.type, type) THEN exprPromote(type, r.type)
                  ELSE [err |-> NoError, type |-> environmentTypeToType(type)]
             second == IF ~TypeEq(r.type, type) THEN Prim(p.type) ELSE type
             binop == [op |-> "binop", operator |-> op, type |-> p.type,
                       a |-> code, b |-> r.code]
         IN  IF Failed(r.st) THEN r
             ELSE IF p.err.kind # "None" THEN E(Throw(r.st, p.err), type, code)
             ELSE IF LeftOperators(p.type) = {}
             THEN E(Throw(r.st, LogicError("BadType")), type, code)
             ELSE IF op \notin LeftOperators(p.type)
             THEN E(Throw(r.st, LogicError("BadOperator")), type, code)
             ELSE Walk("ExprLeft", <<r.st, list, i + 2,
                           IF p.type = Integer /\ op = "Divide" THEN Prim(Float) ELSE second,
                           binop>>)

\* the loop of ListNode Right, from the back: list[i] is an operator
ExprRight(st, list, i, type, code) ==
    IF i < 1 THEN E(st, type, code)
    ELSE LET op == list[i].op
             r == Walk("ExprCodeGen", <<st, list[i - 1]>>)
             p == IF ~TypeEq(r.type, type) THEN exprPromote(type, r.type)
                  ELSE [err |-> NoError, type |-> environmentTypeToType(type)]
             second == IF ~TypeEq(r.type, type) THEN Prim(p.type) ELSE type
             binop == [op |-> "binop", operator |-> op, type |-> p.type,
                       a |-> r.code, b |-> code]
         IN  IF Failed(r.st) THEN r
             ELSE IF p.err.kind # "None" THEN E(Throw(r.st, p.err), type, code)
             ELSE IF p.type \notin {Integer, Float, Complex}
             THEN E(Throw(r.st, LogicError("BadType")), type, code)
             ELSE IF op # "Exponent"
             THEN E(Throw(r.st, LogicError("BadOperator")), type, code)
             ELSE Walk("ExprRight", <<r.st, list, i - 2,
                            IF p.type = Integer THEN Prim(Float) ELSE second, binop>>)

\* the loop of ListNode Unary, from the back: list[i] is an operator; tag is
\* the operand's tag, which the loop never updates
ExprUnary(st, list, i, type, code) ==
    IF i < 1 THEN E(st, type.second, code)
    ELSE LET op == list[i].op
             unop == [op |-> "unop", operator |-> op, type |-> type.tag, a |-> code]
         IN  IF UnaryOperators(type.tag) = {}
             THEN E(Throw(st, LogicError("BadType")), type.second, code)
             ELSE IF op \notin UnaryOperators(type.tag)
             THEN E(Throw(st, LogicError("BadOperator")), type.second, code)
             ELSE ExprUnary(st, list, i - 1,
                            [tag |-> type.tag,
                             second |-> IF op = "Not" /\ type.tag \in {Integer, Float}
                                        THEN Prim(Boolean) ELSE type.second],
                            unop)

\* the loop of ListNode Boolean: a chain of comparisons, and-ed together
ExprBoolean(st, list, i, type, code) ==
    IF i > Len(list) THEN E(st, Prim(Boolean), code.all)
    ELSE LET op == list[i].op
             r == Walk("ExprCodeGen", <<st, list[i + 1]>>)
             p == IF ~TypeEq(r.type, type) THEN exprPromote(type, r.type)
                  ELSE [err |-> NoError, type |-> environmentTypeToType(type)]
             cmp == [op |-> "binop", operator |-> op, type |-> p.type,
                     a |-> code.last, b |-> r.code]
             all == IF code.all.op = "none" THEN cmp
                    ELSE [op |-> "binop", operator |-> "BitAnd", type |-> Boolean,
                          a |-> code.all, b |-> cmp]
         IN  IF Failed(r.st) THEN r
             ELSE IF p.err.kind # "None" THEN E(Throw(r.st, p.err), type, NoCode)
             ELSE IF BooleanOperators(p.type) = {}
             THEN E(Throw(r.st, LogicError("BadType")), type, NoCode)
             ELSE IF op \notin BooleanOperators(p.type)
             THEN E(Throw(r.st, LogicError("BadOperator")), type, NoCode)
             ELSE Walk("ExprBoolean", <<r.st, list, i + 2, Prim(p.type), [last |-> r.code, all |-> all]>>)

\* the parameter loops of the call sites: the Type Scope side (setType) and
\* the emitted setVariable(new) of each parameter; the loop runs over the
\* parameters and reads the arguments through an unchecked iterator
ExprBindParameters(st, parameters, types, i) ==
    IF i > Len(parameters) THEN st
    ELSE IF i > Len(types) THEN Throw(st, Crash("ArgumentsOverrun"))
    ELSE LET type == IF IsPrim(types[i]) THEN Prim(OrConstant(types[i].type)) ELSE types[i]
             s1 == setType(st, parameters[i], type)
         IN  IF Failed(s1) THEN s1 ELSE ExprBindParameters(s1, parameters, types, i + 1)

\* the call sequence emitted by CallNode's CacheFunction branch (as_value)
\* and by StmtCodeGen::codeGen(FunctionCall)
ExprCall(st, name, args, as_value) ==
    LET cache_function == st.functions[name]
        a == Walk("ExprCodeArgs", <<st, args, 1, <<>>, <<>>>>)
        s1 == beginDefineScope(a.st, 0)
        s2 == ExprBindParameters(s1, cache_function.parameters, a.types, 1)
        type == getFunctionInstantiationType(s2, name, a.types)
        s3 == setType(s2, RETURN_VAR, type)
        invoke == [op |-> "invoke",
                   args |-> a.codes,
                   parameters |-> [i \in 1..Len(cache_function.parameters) |->
                                     [name |-> cache_function.parameters[i],
                                      tag |-> environmentTypeToType(a.types[i])]],
                   return_tag |-> environmentTypeToType(type),
                   function_name |-> mangled(name, a.types),
                   as_value |-> as_value]
    IN  IF Failed(a.st) THEN E(a.st, Prim(Unset), NoCode)
        ELSE IF Failed(s2) THEN E(s2, Prim(Unset), NoCode)
        ELSE IF ~HasInst(s2, name, a.types)
        THEN E(Throw(s2, UnexpectedError("NoInst")), Prim(Unset), NoCode)
        ELSE IF Failed(s3) THEN E(s3, Prim(Unset), NoCode)
        ELSE IF as_value /\ environmentTypeToType(type) \notin
                                {Nil, Integer, Boolean, Float, Complex, String}
        THEN E(Throw(s3, UnexpectedError("BadReturnType")), Prim(Unset), NoCode)
        ELSE E(endDefineScope(s3), type, invoke)

\* the member loop of DataNode, MethodNode and codeGen(MethodCall): the
\* type of the last member and the indices handed to getObjectData
RECURSIVE ExprMembers(_, _, _, _, _)
ExprMembers(st, type, member_list, i, indices) ==
    LET M(s, t) == [st |-> s, type |-> t, indices |-> indices]
    IN  IF i > Len(member_list) THEN M(st, type)
        ELSE IF ~IsObj(type) THEN M(Throw(st, UnexpectedError("BadObject")), type)
        ELSE IF type.class_name \notin DOMAIN st.classes
        THEN M(Throw(st, UnexpectedError("ClassNotExist")), type)
        ELSE LET idx == getMemberIndex(st.classes[type.class_name], member_list[i])
                 s1 == LogMember(st, "code", type.class_name, member_list[i], idx)
             IN  IF idx = 0 THEN M(Throw(s1, LogicError("DataNotExist")), type)
                 ELSE IF idx > Len(type.object_types)
                 THEN M(Throw(s1, StdException("out_of_range")), type)
                 ELSE ExprMembers(s1, type.object_types[idx], member_list, i + 1,
                                  Append(indices, idx))

\* the call sequence emitted by MethodNode (as_value) and by
\* StmtCodeGen::codeGen(MethodCall): getObjectData and setThisPtr come
\* before the arguments, unsetThisPtr after the endScope of the call
ExprMethodCall(st, call, as_value) ==
    LET g == tryGetType(st.frames, st.cur, call.name)
        m == ExprMembers(st, g.type, call.member_list, 1, <<>>)
        function_name == m.type.class_name \o <<46>> \o call.method
        cache_function == st.functions[function_name]
        a == Walk("ExprCodeArgs", <<st, call.args, 1, <<>>, <<>>>>)
        s1 == beginDefineScope(a.st, 0)
        s2 == ExprBindParameters(s1, cache_function.parameters, a.types, 1)
        type == getFunctionInstantiationType(s2, function_name, a.types)
        s3 == setType(s2, RETURN_VAR, type)
        invoke == [op |-> "invoke",
                   args |-> a.codes,
                   parameters |-> [i \in 1..Len(cache_function.parameters) |->
                                     [name |-> cache_function.parameters[i],
                                      tag |-> environmentTypeToType(a.types[i])]],
                   return_tag |-> environmentTypeToType(type),
                   function_name |-> mangled(function_name, a.types),
                   as_value |-> as_value,
                   receiver |-> [name |-> call.name, indices |-> m.indices]]
    IN  IF g.err.kind # "None" THEN E(Throw(st, g.err), Prim(Unset), NoCode)
        ELSE IF Failed(m.st) THEN E(m.st, Prim(Unset), NoCode)
        ELSE IF ~IsObj(m.type)
        THEN E(Throw(st, StdException("bad_variant_access")), Prim(Unset), NoCode)
        ELSE IF function_name \notin DOMAIN st.functions
        THEN E(Throw(st, UnexpectedError("FuncNotExist")), Prim(Unset), NoCode)
        ELSE IF Failed(a.st) THEN E(a.st, Prim(Unset), NoCode)
        ELSE IF Failed(s2) THEN E(s2, Prim(Unset), NoCode)
        ELSE IF ~HasInst(s2, function_name, a.types)
        THEN E(Throw(s2, UnexpectedError("NoInst")), Prim(Unset), NoCode)
        ELSE IF Failed(s3) THEN E(s3, Prim(Unset), NoCode)
        ELSE IF as_value /\ environmentTypeToType(type) \notin
                                {Nil, Integer, Boolean, Float, Complex, String}
        THEN E(Throw(s3, UnexpectedError("BadReturnType")), Prim(Unset), NoCode)
        ELSE E(endDefineScope(s3), type, invoke)

\* ExprCodeGen::operator()
ExprCodeGen(st, node) ==
    CASE node.node = "ValueNode" ->
            IF node.type \in {Nil, Boolean, Integer, Float, Complex, String}
            THEN E(st, Prim(node.type),
                   [op |-> "const", type |-> node.type, value |-> node.value])
            ELSE IF node.type = Object
            THEN E(Throw(st, UnexpectedError("NoAssignObject")), Prim(Unset), NoCode)
            ELSE E(Throw(st, UnexpectedError("BadType")), Prim(Unset), NoCode)
      [] node.node = "VariableNode" ->
            IF ~isDefined(st.frames, st.cur, node.name)
            THEN E(Throw(st, UnexpectedError("VarNotExist")), Prim(Unset), NoCode)
            ELSE LET type == getType(st.frames, st.cur, node.name)
                 IN  IF environmentTypeToType(type) \notin
                            {Nil, Integer, Boolean, Float, Complex, String, Object}
                     THEN E(Throw(st, UnexpectedError("BadType")), Prim(Unset), NoCode)
                     ELSE E(st, type,
                            [op |-> "getVariable", name |-> node.name,
                             type |-> environmentTypeToType(type),
                             global |-> FrameOf(st.frames, st.cur, node.name)
                                            = GlobalDefineScope])
      [] node.node = "CallNode" ->
            IF getCacheType(st, node.name) = "CacheFunction"
            THEN Walk("ExprCall", <<st, node.name, node.args, TRUE>>)
            ELSE IF getCacheType(st, node.name) = "CacheClass"
            THEN LET a == Walk("ExprCodeArgs", <<st, node.args, 1, <<>>, <<>>>>)
                 IN  E(a.st, Obj(node.name, a.types),
                       [op |-> "object", class_name |-> node.name, members |-> a.codes])
            ELSE E(Throw(st, UnexpectedError("CallableNotExist")), Prim(Unset), NoCode)
      [] node.node = "DataNode" ->
            LET g == tryGetType(st.frames, st.cur, node.name)
                m == ExprMembers(st, g.type, node.member_list, 1, <<>>)
            IN  IF g.err.kind # "None" THEN E(Throw(st, g.err), Prim(Unset), NoCode)
                ELSE IF Failed(m.st) THEN E(m.st, Prim(Unset), NoCode)
                ELSE IF environmentTypeToType(m.type) \notin
                            {Nil, Integer, Boolean, Float, Complex, String, Object}
                THEN E(Throw(st, UnexpectedError("BadType")), Prim(Unset), NoCode)
                ELSE E(m.st, m.type,
                       [op |-> "getObjectData", name |-> node.name, indices |-> m.indices,
                        type |-> environmentTypeToType(m.type)])
      [] node.node = "MethodNode" -> Walk("ExprMethodCall", <<st, node, TRUE>>)
      [] node.node = "InputNode" ->
            E(st, Prim(String), [op |-> "getUserInput"])
      [] node.node = "ConvNode" ->
            LET r == Walk("ExprCodeGen", <<st, node.expression>>)
                type == IF node.to_type \in {Real, Imaginary} THEN Float ELSE node.to_type
            IN  IF Failed(r.st) THEN r
                ELSE IF node.to_type \notin {Integer, Real, Imaginary, Float, Complex, String}
                THEN E(Throw(r.st, UnexpectedError("BadType")), Prim(Unset), NoCode)
                ELSE E(r.st, Prim(type),
                       [op |-> "convertType", to_type |-> node.to_type,
                        from_tag |-> environmentTypeToType(r.type), a |-> r.code])
      [] node.node = "ListNode" ->
            CASE node.association = "Left" ->
                    LET r == Walk("ExprCodeGen", <<st, node.list[1]>>)
                    IN  IF Failed(r.st) THEN r
                        ELSE Walk("ExprLeft", <<r.st, node.list, 2, r.type, r.code>>)
              [] node.association = "Right" ->
                    LET r == Walk("ExprCodeGen", <<st, node.list[Len(node.list)]>>)
                    IN  IF Failed(r.st) THEN r
                        ELSE Walk("ExprRight", <<r.st, node.list, Len(node.list) - 1, r.type, r.code>>)
              [] node.association = "Unary" ->
                    LET r == Walk("ExprCodeGen", <<st, node.list[Len(node.list)]>>)
                    IN  IF Failed(r.st) THEN r
                        ELSE ExprUnary(r.st, node.list, Len(node.list) - 1,
                                       [tag |-> environmentTypeToType(r.type),
                                        second |-> r.type], r.code)
              [] node.association = "Boolean" ->
                    LET r == Walk("ExprCodeGen", <<st, node.list[1]>>)
                    IN  IF Failed(r.st) THEN r
                        ELSE IF Len(node.list) = 1 THEN r
                        ELSE Walk("ExprBoolean", <<r.st, node.list, 2, r.type,
                                         [last |-> r.code, all |-> NoCode]>>)
              [] OTHER -> E(Throw(st, UnexpectedError("BadAssociation")), Prim(Unset), NoCode)
      [] OTHER -> E(Throw(st, UnexpectedError("BadNode")), Prim(Unset), NoCode)

-----------------------------------------------------------------------------
(* Code generation: StmtCodeGen, codegen/StmtCodeGen.cpp.  A statement      *)
(* walker returns C(st, code): the instructions it appended, in order.      *)
(* st.depth is the StmtCodeGen object's depth member.                       *)

C(st, code) == [st |-> st, code |-> code]

\* ExprCodeGen::toBoolean: the tags that have a truth value
toBoolean(type) ==
    environmentTypeToType(type) \in {Boolean, Integer, Float, String}

\* n copies of the call to endScope
EndScopes(n) == [i \in 1..n |-> [op |-> "endScope"]]

\* the calls to beginScope in emitted code: those of the instructions and
\* the one at the head of each emitted call sequence
RECURSIVE Opens(_), OpensAll(_)
OpensAll(codes) ==
    IF codes = <<>> THEN 0 ELSE Opens(Head(codes)) + OpensAll(Tail(codes))
Opens(c) ==
    CASE c.op = "beginScope" -> 1
      [] c.op = "invoke" -> 1 + OpensAll(c.args)
      [] c.op = "binop" -> Opens(c.a) + Opens(c.b)
      [] c.op \in {"unop", "convertType"} -> Opens(c.a)
      [] c.op = "object" -> OpensAll(c.members)
      [] c.op \in {"setVariable", "setObjectData", "printValue"} -> Opens(c.value)
      [] c.op = "condBr" ->
            Opens(c.condition) + OpensAll(c.true_block) + OpensAll(c.false_block)
      [] c.op \in {"while", "repeat"} -> Opens(c.condition) + OpensAll(c.loop_block)
      [] c.op = "case" ->
            Opens(c.case_value) + OpensAll(c.unmatched)
                + OpensAll([i \in 1..Len(c.matches) |-> c.matches[i].expression])
                + OpensAll([i \in 1..Len(c.matches) |->
                              [op |-> "condBr", condition |-> NoCode,
                               true_block |-> c.matches[i].block, false_block |-> <<>>]])
      [] OTHER -> 0

\* what the code generation of one statement did, for the observation log:
\* the Type Scope depth it found and left, the Type Scopes it opened and the
\* calls to beginScope it emitted
LogStmt(before, r, s) ==
    IF Failed(r.st) THEN r
    ELSE [r EXCEPT !.st.log.stmts = @ \cup
            {[stmt |-> s.stmt,
              found |-> getDepth(before.frames, before.cur),
              left |-> getDepth(r.st.frames, r.st.cur),
              opened |-> Len(r.st.frames) - Len(before.frames),
              begins |-> OpensAll(r.code)]}]

\* the statement loops
StmtCodeGenSeq(st, stmts, i, code) ==
    IF i > Len(stmts) THEN C(st, code)
    ELSE LET r == LogStmt(st, Walk("StmtCodeGen", <<st, stmts[i]>>), stmts[i])
         IN  IF Failed(r.st) THEN r
             ELSE Walk("StmtCodeGenSeq", <<r.st, stmts, i + 1, code \o r.code>>)

\* a StmtList operator that leaves its define scope open
StmtCodeGenListOpen(st, stmts) ==
    IF stmts = <<>> THEN C(st, <<>>)
    ELSE LET r == Walk("StmtCodeGenSeq", <<beginDefineScope(st, 0), stmts, 1, <<[op |-> "beginScope"]>>>>)
             tail == IF stmts[Len(stmts)].stmt # "ReturnStmt"
                     THEN <<[op |-> "endScope"]>> ELSE <<>>
         IN  IF Failed(r.st) THEN r
             ELSE C(r.st, r.code \o tail)

\* StmtCodeGen::operator()(const StmtList&, BasicBlock*)
StmtCodeGenList(st, stmts) ==
    IF stmts = <<>> THEN C(st, <<>>)
    ELSE LET r == Walk("StmtCodeGenSeq", <<beginDefineScope(st, 0), stmts, 1, <<[op |-> "beginScope"]>>>>)
             tail == IF stmts[Len(stmts)].stmt # "ReturnStmt"
                     THEN <<[op |-> "endScope"]>> ELSE <<>>
         IN  IF Failed(r.st) THEN r
             ELSE C(endDefineScope(r.st), r.code \o tail)

\* the when loop of StmtCodeGen::codeGen(CaseStmt): each test promotes the
\* when value and the case value, each block goes through the StmtList
\* operator
StmtCases(st, matches, i, match_type, whens) ==
    IF i > Len(matches) THEN C(st, whens)
    ELSE LET r == Walk("ExprCodeGen", <<st, matches[i].expression>>)
             p == exprPromote(r.type, match_type)
             b == Walk("StmtCodeGenList", <<r.st, matches[i].block>>)
         IN  IF Failed(r.st) THEN C(r.st, whens)
             ELSE IF p.err.kind # "None" THEN C(Throw(r.st, p.err), whens)
             ELSE IF p.type \notin {Boolean, Integer, Float, Complex, String}
             THEN C(Throw(r.st, LogicError("BadType")), whens)
             ELSE IF Failed(b.st) THEN C(b.st, whens)
             ELSE Walk("StmtCases", <<b.st, matches, i + 1, match_type,
                              Append(whens, [expression |-> r.code, block |-> b.code])>>)

\* StmtCodeGen::codeGen, one branch per statement kind
StmtCodeGen(st, s) ==
    CASE s.stmt \in {"CommentStmt", "Function", "Class"} -> C(st, <<>>)
      [] s.stmt = "PrintStmt" ->
            LET r == Walk("ExprCodeGen", <<st, s.expression>>)
            IN  C(r.st, <<[op |-> "printValue", value |-> r.code,
                           tag |-> environmentTypeToType(r.type)]>>)
      [] s.stmt = "InitStmt" ->
            LET r == Walk("ExprCodeGen", <<st, s.value>>)
                type == IF IsPrim(r.type) /\ s.assign = "Equal"
                        THEN Prim(OrConstant(r.type.type)) ELSE r.type
                s1 == IF r.st.frames[r.st.cur].enclosing # 0
                      THEN LogInit(setType(r.st, s.name, type), "code", s, type)
                      ELSE r.st
            IN  IF Failed(r.st) THEN C(r.st, <<>>)
                ELSE C(s1, <<[op |-> "setVariable", name |-> s.name, value |-> r.code,
                              tag |-> environmentTypeToType(type), new |-> TRUE,
                              assign |-> FALSE, global |-> FALSE]>>)
      [] s.stmt = "AssignStmt" ->
            IF ~isDefined(st.frames, st.cur, s.name)
            THEN C(Throw(st, UnexpectedError("VarNotExist")), <<>>)
            ELSE IF IsPrim(getType(st.frames, st.cur, s.name))
                    /\ IsConstant(getType(st.frames, st.cur, s.name).type)
            THEN C(Throw(st, UnexpectedError("NoConstantAssign")), <<>>)
            ELSE LET r == Walk("ExprCodeGen", <<st, s.value>>)
                 IN  IF Failed(r.st) THEN C(r.st, <<>>)
                     ELSE IF ~TypeEq(getType(r.st.frames, r.st.cur, s.name), r.type)
                     THEN C(Throw(r.st, LogicError("VarType")), <<>>)
                     ELSE C(r.st, <<[op |-> "setVariable", name |-> s.name,
                                     value |-> r.code,
                                     tag |-> environmentTypeToType(r.type),
                                     new |-> FALSE, assign |-> TRUE,
                                     global |-> FrameOf(r.st.frames, r.st.cur, s.name)
                                                    = GlobalDefineScope]>>)
      [] s.stmt = "DataAssignStmt" ->
            IF ~isDefined(st.frames, st.cur, s.name)
            THEN C(Throw(st, UnexpectedError("VarNotExist")), <<>>)
            ELSE LET m == ExprMembers(st, getType(st.frames, st.cur, s.name),
                                      s.member_list, 1, <<>>)
                     r == Walk("ExprCodeGen", <<m.st, s.value>>)
                 IN  IF Failed(m.st) THEN C(m.st, <<>>)
                     ELSE IF Failed(r.st) THEN C(r.st, <<>>)
                     ELSE IF ~TypeEq(m.type, r.type)
                     THEN C(Throw(r.st, UnexpectedError("DataType")), <<>>)
                     ELSE C(r.st, <<[op |-> "setObjectData", name |-> s.name,
                                     indices |-> m.indices, value |-> r.code,
                                     tag |-> environmentTypeToType(r.type)]>>)
      [] s.stmt = "IfStmt" ->
            LET r == Walk("ExprCodeGen", <<st, s.condition>>)
                t == Walk("StmtCodeGenList", <<r.st, s.true_test>>)
                f == Walk("StmtCodeGenList", <<t.st, s.false_test>>)
            IN  IF Failed(r.st) THEN C(r.st, <<>>)
                ELSE IF ~toBoolean(r.type) THEN C(Throw(r.st, UnexpectedError("NoBoolean")), <<>>)
                ELSE IF Failed(t.st) THEN t
                ELSE C(f.st, <<[op |-> "condBr", condition |-> r.code,
                                tag |-> environmentTypeToType(r.type),
                                true_block |-> t.code, false_block |-> f.code]>>)
      [] s.stmt = "WhileStmt" ->
            LET r == Walk("ExprCodeGen", <<beginDefineScope(st, 0), s.condition>>)
                b == Walk("StmtCodeGenSeq", <<r.st, s.loop_block, 1, <<>>>>)
            IN  IF Failed(r.st) THEN C(r.st, <<>>)
                ELSE IF ~toBoolean(r.type) THEN C(Throw(r.st, UnexpectedError("NoBoolean")), <<>>)
                ELSE IF Failed(b.st) THEN C(b.st, <<>>)
                ELSE C(endDefineScope(b.st),
                       <<[op |-> "beginScope"],
                         [op |-> "while", condition |-> r.code,
                          tag |-> environmentTypeToType(r.type), loop_block |-> b.code],
                         [op |-> "endScope"]>>)
      [] s.stmt = "RepeatStmt" ->
            LET b == Walk("StmtCodeGenSeq", <<beginDefineScope(st, 0), s.loop_block, 1, <<>>>>)
                r == Walk("ExprCodeGen", <<b.st, s.condition>>)
            IN  IF Failed(b.st) THEN C(b.st, <<>>)
                ELSE IF Failed(r.st) THEN C(r.st, <<>>)
                ELSE IF ~toBoolean(r.type) THEN C(Throw(r.st, UnexpectedError("NoBoolean")), <<>>)
                ELSE C(endDefineScope(r.st),
                       <<[op |-> "beginScope"],
                         [op |-> "repeat", loop_block |-> b.code, condition |-> r.code,
                          tag |-> environmentTypeToType(r.type)],
                         [op |-> "endScope"]>>)
      [] s.stmt = "CaseStmt" ->
            LET r == Walk("ExprCodeGen", <<st, s.case_value>>)
                w == Walk("StmtCases", <<r.st, s.matches, 1, r.type, <<>>>>)
                u == Walk("StmtCodeGenList", <<w.st, s.unmatched>>)
            IN  IF Failed(r.st) THEN C(r.st, <<>>)
                ELSE IF Failed(w.st) THEN C(w.st, <<>>)
                ELSE IF Failed(u.st) THEN C(u.st, <<>>)
                ELSE C(u.st, <<[op |-> "case", case_value |-> r.code,
                                matches |-> w.code, unmatched |-> u.code]>>)
      [] s.stmt = "FunctionCall" ->
            IF s.name \notin DOMAIN st.functions
            THEN C(Throw(st, UnexpectedError("FuncNotExist")), <<>>)
            ELSE LET r == Walk("ExprCall", <<st, s.name, s.args, FALSE>>)
                 IN  C(r.st, <<r.code>>)
      [] s.stmt = "MethodCall" ->
            LET r == Walk("ExprMethodCall", <<st, s, FALSE>>)
            IN  C(r.st, <<r.code>>)
      [] s.stmt = "ReturnStmt" ->
            LET r == Walk("ExprCodeGen", <<st, s.expression>>)
                stmt_depth == IF s.id \in DOMAIN r.st.return_depth
                              THEN r.st.return_depth[s.id] ELSE -1
                n == (stmt_depth - 1) - r.st.depth
            IN  IF Failed(r.st) THEN C(r.st, <<>>)
                ELSE C(r.st, <<[op |-> "setVariable", name |-> RETURN_VAR,
                                value |-> r.code,
                                tag |-> environmentTypeToType(r.type), new |-> FALSE,
                                assign |-> FALSE, global |-> FALSE]>>
                             \o EndScopes(IF n > 0 THEN n ELSE 0)
                             \o <<[op |-> "brExit", id |-> s.id, recorded |-> stmt_depth,
                                   entry |-> r.st.depth,
                                   closes |-> IF n > 0 THEN n ELSE 0]>>)
      [] OTHER -> C(Throw(st, UnexpectedError("BadStmtNode")), <<>>)

-----------------------------------------------------------------------------
(* JIT::initialize, engine/JIT.cpp: one native function per instantiation,  *)
(* in table order; the walk stops at the first one that fails.              *)

JITFunctions(st, i, funcs) ==
    IF i > Len(st.instantiations) THEN C(st, funcs)
    ELSE LET instantiation == st.instantiations[i]
             body == st.functions[instantiation.name].body
             current_scope == st.cur
             s1 == [setCurrentDefineScope(st, instantiation.scope) EXCEPT
                        !.depth = getDepth(st.frames, instantiation.scope)]
             r == Walk("StmtCodeGenSeq", <<s1, body, 1, <<[op |-> "beginScope"]>>>>)
             s2 == [setCurrentDefineScope(r.st, current_scope) EXCEPT !.depth = st.depth]
         IN  IF instantiation.scope = 0 THEN C(Throw(st, Crash("NullScope")), funcs)
             ELSE IF body = <<>> THEN C(Throw(st, Crash("EmptyBody")), funcs)
             ELSE IF Failed(r.st) THEN C(r.st, funcs)
             ELSE Walk("JITFunctions", <<s2, i + 1,
                               Append(funcs, [name |-> InstKey(instantiation),
                                              code |-> r.code])>>)

-----------------------------------------------------------------------------
(* Execution of the generated code against the runtime of lib/Abaci.cpp and *)
(* Environment::Scope.  A runtime state `rt` carries the Value Scope chain  *)
(* (scopes, innermost last), the exception in flight and the log of the     *)
(* variable accesses.  A runtime value is [type |-> tag, value |-> payload].*)

MaxCallDepth == 4       \* nested native calls one statement may make
MaxIterations == 3      \* passes of one loop before the run is cut off

\* A loop block that holds a return statement directly holds two branches,
\* `br exit_block` and after it the loop's own branch: the module is
\* malformed and is never verified (JIT.cpp 104), so what the built code
\* does at the first branch is undefined.  It may take it, pass it and go
\* on to the last one, or stop the process.
MidBlockOutcomes == {"first", "last", "fault"}

\* a fresh runtime state on the scopes and receivers of a session
NewRuntime(scopes_, ptrs, midblock) ==
    [scopes |-> scopes_, this_ptrs |-> ptrs, err |-> NoError, calls |-> 0,
     accesses |-> {}, methods |-> {}, midblock |-> midblock, entry |-> 0,
     returns |-> {}, exits |-> {}]

\* index of the innermost scope that binds name, 0 if none:
\* the walk of Scope::getValue and Scope::setValue
ScopeOf(chain, name) ==
    IF \E k \in 1..Len(chain) : name \in DOMAIN chain[k]
    THEN CHOOSE k \in 1..Len(chain) :
            /\ name \in DOMAIN chain[k]
            /\ \A j \in (k + 1)..Len(chain) : name \notin DOMAIN chain[j]
    ELSE 0

\* Environment::beginScope / endScope
beginScope(rt) == [rt EXCEPT !.scopes = Append(@, EmptyMap)]
endScope(rt) ==
    IF rt.scopes = <<>> THEN Throw(rt, Crash("NullScope"))
    ELSE [rt EXCEPT !.scopes = SubSeq(@, 1, Len(@) - 1)]

\* a setVariable whose assignment rebinds a name of another tag
setVariableRetag(rt, name, value, new) ==
    LET k == ScopeOf(rt.scopes, name)
        top == Len(rt.scopes)
    IN  IF rt.scopes = <<>> THEN Throw(rt, Crash("NullScope"))
        ELSE IF new
        THEN IF name \in DOMAIN rt.scopes[top]
             THEN Throw(rt, UnexpectedError("VarExists"))
             ELSE [rt EXCEPT !.scopes[top] = (name :> value) @@ @]
        ELSE IF k = 0 THEN Throw(rt, UnexpectedError("VarNotExist"))
        ELSE [rt EXCEPT !.scopes[k][name] = value]

\* setVariable(environment, name, value, new_variable)
setVariable(rt, name, value, new) ==
    LET k == ScopeOf(rt.scopes, name)
        top == Len(rt.scopes)
    IN  IF rt.scopes = <<>> THEN Throw(rt, Crash("NullScope"))
        ELSE IF new
        THEN IF name \in DOMAIN rt.scopes[top]
             THEN Throw(rt, UnexpectedError("VarExists"))
             ELSE [rt EXCEPT !.scopes[top] = (name :> value) @@ @]
        ELSE IF k = 0 THEN Throw(rt, UnexpectedError("VarNotExist"))
        ELSE IF value.type # rt.scopes[k][name].type
        THEN Throw(rt, UnexpectedError("VarType"))
        ELSE [rt EXCEPT !.scopes[k][name] = value]

\* integer arithmetic of the emitted instructions (Float payloads are whole
\* numbers here; division by zero yields 0)
Arith(operator, a, b) ==
    CASE operator = "Plus" -> a + b
      [] operator = "Minus" -> a - b
      [] operator = "Times" -> a * b
      [] operator \in {"Divide", "FloorDivide"} -> IF b = 0 THEN 0 ELSE a \div b
      [] operator = "Modulo" -> IF b <= 0 THEN 0 ELSE a % b
      [] operator = "Equal" -> IF a = b THEN 1 ELSE 0
      [] operator = "NotEqual" -> IF a # b THEN 1 ELSE 0
      [] operator = "Less" -> IF a < b THEN 1 ELSE 0
      [] operator = "LessEqual" -> IF a <= b THEN 1 ELSE 0
      [] operator = "GreaterEqual" -> IF a >= b THEN 1 ELSE 0
      [] operator = "Greater" -> IF a > b THEN 1 ELSE 0
      [] operator \in {"And", "BitAnd"} -> IF a # 0 /\ b # 0 THEN 1 ELSE 0
      [] operator \in {"Or", "BitOr"} -> IF a # 0 \/ b # 0 THEN 1 ELSE 0
      [] OTHER -> 0

V(rt, value) == [rt |-> rt, value |-> value]
X(rt, exit) == [rt |-> rt, exit |-> exit]

NilValue == [type |-> Nil, value |-> 0]

\* module.getFunction(name): the first function of that name, 0 if none
FindFunction(funcs, name) ==
    IF \E i \in 1..Len(funcs) : funcs[i].name = name
    THEN CHOOSE i \in 1..Len(funcs) :
            /\ funcs[i].name = name
            /\ \A j \in 1..(i - 1) : funcs[j].name # name
    ELSE 0

RECURSIVE DefineParameters(_, _, _, _)

\* the argument values, in order, before the callee's scope is opened
EvalArgs(rt, funcs, codes, i, values) ==
    IF i > Len(codes) THEN [rt |-> rt, values |-> values]
    ELSE LET r == Walk("EvalCode", <<rt, funcs, codes[i]>>)
         IN  IF Failed(r.rt) THEN [rt |-> r.rt, values |-> values]
             ELSE Walk("EvalArgs", <<r.rt, funcs, codes, i + 1, Append(values, r.value)>>)

\* an AbaciValue*: a binding of a scope and the member indices below it
Pointer(scope, name, path) == [scope |-> scope, name |-> name, path |-> path]
NullPointer == Pointer(0, <<>>, <<>>)

\* Environment::getThisPtr
getThisPtr(ptrs) ==
    IF ptrs = <<>> THEN NullPointer ELSE ptrs[Len(ptrs)]

\* Environment::setThisPtr
setThisPtr(rt, ptr) == [rt EXCEPT !.this_ptrs = Append(@, ptr)]

\* an unsetThisPtr that empties the receiver stack
unsetThisPtrAll(rt) ==
    IF rt.this_ptrs = <<>> THEN Throw(rt, Crash("PopEmpty"))
    ELSE [rt EXCEPT !.this_ptrs = <<>>]

\* Environment::unsetThisPtr; pop_back on an empty vector is undefined, and
\* no emitted sequence calls it there: the process is taken to stop
unsetThisPtr(rt) ==
    IF rt.this_ptrs = <<>> THEN Throw(rt, Crash("PopEmpty"))
    ELSE [rt EXCEPT !.this_ptrs = SubSeq(@, 1, Len(@) - 1)]

\* the value a pointer leads to, NilValue where it leads nowhere
RECURSIVE Member(_, _)
Member(value, path) ==
    IF path = <<>> THEN value
    ELSE IF value.type # Object \/ Head(path) > Len(value.value) THEN NilValue
    ELSE Member(value.value[Head(path)], Tail(path))
Deref(scopes_, ptr) ==
    IF ptr.scope \notin 1..Len(scopes_) THEN NilValue
    ELSE IF ptr.name \notin DOMAIN scopes_[ptr.scope] THEN NilValue
    ELSE Member(scopes_[ptr.scope][ptr.name], ptr.path)

\* getObjectData(environment, name, indices)
getObjectData(rt, name, indices) ==
    LET k == ScopeOf(rt.scopes, name)
        data == IF name = THIS_VAR THEN getThisPtr(rt.this_ptrs)
                ELSE Pointer(k, name, <<>>)
    IN  IF name # THIS_VAR /\ k = 0
        THEN [rt |-> Throw(rt, UnexpectedError("VarNotExist")), ptr |-> NullPointer]
        ELSE IF indices # <<>> /\ data = NullPointer
        THEN [rt |-> Throw(rt, Crash("NullThis")), ptr |-> NullPointer]
        ELSE [rt |-> rt, ptr |-> [data EXCEPT !.path = @ \o indices]]

\* the path leads to a member of the value
RECURSIVE HasMember(_, _)
HasMember(value, path) ==
    \/ path = <<>>
    \/ /\ value.type = Object
       /\ Head(path) <= Len(value.value)
       /\ HasMember(value.value[Head(path)], Tail(path))

\* the value with the member a path leads to replaced
RECURSIVE StoreMember(_, _, _)
StoreMember(value, path, new) ==
    IF path = <<>> THEN new
    ELSE [value EXCEPT !.value[Head(path)] = StoreMember(@, Tail(path), new)]

\* setObjectData(environment, name, indices, value); a store through a
\* pointer that leads nowhere is undefined: the process is taken to stop
setObjectData(rt, name, indices, value) ==
    LET d == getObjectData(rt, name, indices)
    IN  IF Failed(d.rt) THEN d.rt
        ELSE IF \/ d.ptr.scope \notin 1..Len(d.rt.scopes)
                \/ d.ptr.name \notin DOMAIN d.rt.scopes[d.ptr.scope]
                \/ ~HasMember(d.rt.scopes[d.ptr.scope][d.ptr.name], d.ptr.path)
        THEN Throw(d.rt, Crash("NullData"))
        ELSE [d.rt EXCEPT !.scopes[d.ptr.scope][d.ptr.name] =
                                StoreMember(@, d.ptr.path, value)]

\* what one emitted method call did to the receiver stack, for the
\* observation log: the stack the call found, the stack when its first
\* argument expression started, the stack when its callee started and the
\* stack it left
LogMethod(rt, receiver, before, args_on, args, entered) ==
    [rt EXCEPT !.methods = @ \cup
        {[receiver |-> receiver, before |-> before, args_on |-> args_on,
          args |-> args, entered |-> entered, after |-> rt.this_ptrs]}]

\* what the exit block of a native function left, for the observation log:
\* the scopes when the function was entered (the parameter frame on top) and
\* the scopes after the exit block's endScope
LogExit(rt, function_name, entered, returned) ==
    IF Failed(rt) THEN rt
    ELSE [rt EXCEPT !.exits = @ \cup
            {[function_name |-> function_name, returned |-> returned,
              entered |-> Len(entered), left |-> Len(rt.scopes),
              same_frame |-> /\ Len(rt.scopes) = Len(entered)
                             /\ DOMAIN rt.scopes[Len(rt.scopes)]
                                    = DOMAIN entered[Len(entered)]]}]

\* what the jump of a return statement met, for the observation log: the
\* scopes open above the function body's own frame before the closes ran
LogJump(rt, c, midblock) ==
    [rt EXCEPT !.returns = @ \cup
        {[id |-> c.id, recorded |-> c.recorded, entry |-> c.entry,
          closes |-> c.closes,
          open |-> (Len(rt.scopes) + c.closes) - (rt.entry + 1),
          midblock |-> midblock]}]

DefineParameters(rt, parameters, values, i) ==
    IF i > Len(parameters) THEN rt
    ELSE LET r == setVariable(rt, parameters[i].name,
                              [type |-> parameters[i].tag, value |-> values[i].value], TRUE)
         IN  IF Failed(r) THEN r ELSE DefineParameters(r, parameters, values, i + 1)

\* the emitted call sequence: beginScope, setVariable of each parameter and
\* of _return, the native call (entry: beginScope, exit: endScope), the read
\* of _return, endScope
ExecInvoke(rt, funcs, c) ==
    LET method == "receiver" \in DOMAIN c
        d == IF method THEN getObjectData(rt, c.receiver.name, c.receiver.indices)
             ELSE [rt |-> rt, ptr |-> NullPointer]
        r0 == IF method /\ ~Failed(d.rt) THEN setThisPtr(d.rt, d.ptr) ELSE d.rt
        a == Walk("EvalArgs", <<r0, funcs, c.args, 1, <<>>>>)
        r1 == DefineParameters(beginScope(a.rt), c.parameters, a.values, 1)
        r2 == setVariable(r1, RETURN_VAR, [type |-> c.return_tag, value |-> 0], TRUE)
        f == FindFunction(funcs, c.function_name)
        r3 == Walk("ExecSeq", <<[r2 EXCEPT !.calls = @ + 1, !.entry = Len(r2.scopes)],
                                funcs, funcs[f].code, 1>>)
        r4 == LogExit(endScope(r3.rt), c.function_name, r2.scopes, r3.exit)
        k == ScopeOf(r4.scopes, RETURN_VAR)
        r5 == [r4 EXCEPT !.calls = rt.calls, !.entry = rt.entry]
        Leave(r) == IF ~method \/ Failed(endScope(r)) THEN endScope(r)
                    ELSE LogMethod(unsetThisPtr(endScope(r)), d.ptr, rt.this_ptrs,
                                   r0.this_ptrs, Len(c.args), r2.this_ptrs)
    IN  IF Failed(d.rt) THEN V(d.rt, NilValue)
        ELSE IF Failed(a.rt) THEN V(a.rt, NilValue)
        ELSE IF Failed(r1) THEN V(r1, NilValue)
        ELSE IF Failed(r2) THEN V(r2, NilValue)
        ELSE IF f = 0 THEN V(Throw(r2, Crash("NoFunction")), NilValue)
        ELSE IF rt.calls >= MaxCallDepth THEN V(Throw(r2, Crash("StackOverflow")), NilValue)
        ELSE IF Failed(r3.rt) THEN V(r3.rt, NilValue)
        ELSE IF Failed(r4) THEN V(r4, NilValue)
        ELSE IF ~c.as_value THEN V(Leave(r5), NilValue)
        ELSE IF k = 0 THEN V(Throw(r5, UnexpectedError("VarNotExist")), NilValue)
        ELSE V(Leave(r5), [type |-> c.return_tag, value |-> r4.scopes[k][RETURN_VAR].value])

\* one emitted expression
EvalCode(rt, funcs, c) ==
    CASE c.op = "const" -> V(rt, [type |-> c.type, value |-> c.value])
      [] c.op = "getVariable" ->
            LET k == ScopeOf(rt.scopes, c.name)
                found == rt.scopes[k][c.name]
                access == [kind |-> "read", name |-> c.name, static |-> c.type,
                           found |-> found.type, meant_global |-> c.global,
                           found_root |-> k = 1, in_function |-> rt.calls > 0]
            IN  IF rt.scopes = <<>> THEN V(Throw(rt, Crash("NullScope")), NilValue)
                ELSE IF k = 0 THEN V(Throw(rt, UnexpectedError("VarNotExist")), NilValue)
                ELSE V([rt EXCEPT !.accesses = @ \cup {access}],
                       [type |-> c.type, value |-> found.value])
      [] c.op = "invoke" -> Walk("ExecInvoke", <<rt, funcs, c>>)
      [] c.op = "getObjectData" ->
            LET d == getObjectData(rt, c.name, c.indices)
            IN  IF Failed(d.rt) THEN V(d.rt, NilValue)
                ELSE V(d.rt, [type |-> c.type, value |-> Deref(d.rt.scopes, d.ptr).value])
      [] c.op = "object" ->
            LET a == Walk("EvalArgs", <<rt, funcs, c.members, 1, <<>>>>)
            IN  V(a.rt, [type |-> Object, value |-> a.values])
      [] c.op = "getUserInput" -> V(rt, [type |-> String, value |-> 0])
      [] c.op = "convertType" ->
            LET r == Walk("EvalCode", <<rt, funcs, c.a>>)
            IN  IF Failed(r.rt) THEN r
                ELSE IF c.to_type \in {Real, Imaginary} /\ c.from_tag # Complex
                THEN V(Throw(r.rt, LogicError("NeedType")), NilValue)
                ELSE V(r.rt, [type |-> IF c.to_type \in {Real, Imaginary} THEN Float
                                       ELSE c.to_type,
                              value |-> r.value.value])
      [] c.op = "binop" ->
            LET ra == Walk("EvalCode", <<rt, funcs, c.a>>)
                rb == Walk("EvalCode", <<ra.rt, funcs, c.b>>)
            IN  IF Failed(ra.rt) THEN ra
                ELSE IF Failed(rb.rt) THEN rb
                ELSE V(rb.rt, [type |-> c.type,
                               value |-> Arith(c.operator, ra.value.value, rb.value.value)])
      [] c.op = "unop" ->
            LET ra == Walk("EvalCode", <<rt, funcs, c.a>>)
            IN  IF Failed(ra.rt) THEN ra
                ELSE V(ra.rt, [type |-> c.type,
                               value |-> IF c.operator = "Minus" THEN 0 - ra.value.value
                                         ELSE IF ra.value.value = 0 THEN 1 ELSE 0])
      [] OTHER -> V(Throw(rt, Crash("BadCode")), NilValue)

\* one emitted instruction; exit: the branch to the function's exit block
ExecInstr(rt, funcs, c) ==
    CASE c.op = "beginScope" -> X(beginScope(rt), FALSE)
      [] c.op = "endScope" -> X(endScope(rt), FALSE)
      [] c.op = "setVariable" ->
            LET r == Walk("EvalCode", <<rt, funcs, c.value>>)
                k == ScopeOf(r.rt.scopes, c.name)
                access == [kind |-> "assign", name |-> c.name, static |-> c.tag,
                           found |-> r.rt.scopes[k][c.name].type,
                           meant_global |-> c.global, found_root |-> k = 1,
                           in_function |-> rt.calls > 0]
                r1 == IF c.assign /\ k # 0
                      THEN [r.rt EXCEPT !.accesses = @ \cup {access}] ELSE r.rt
            IN  IF Failed(r.rt) THEN X(r.rt, FALSE)
                ELSE X(setVariable(r1, c.name,
                                   [type |-> c.tag, value |-> r.value.value], c.new), FALSE)
      [] c.op = "setObjectData" ->
            LET r == Walk("EvalCode", <<rt, funcs, c.value>>)
            IN  IF Failed(r.rt) THEN X(r.rt, FALSE)
                ELSE X(setObjectData(r.rt, c.name, c.indices,
                                     [type |-> c.tag, value |-> r.value.value]), FALSE)
      [] c.op = "printValue" -> X(Walk("EvalCode", <<rt, funcs, c.value>>).rt, FALSE)
      [] c.op = "condBr" ->
            LET r == Walk("EvalCode", <<rt, funcs, c.condition>>)
            IN  IF Failed(r.rt) THEN X(r.rt, FALSE)
                ELSE IF r.value.value # 0 THEN Walk("ExecSeq", <<r.rt, funcs, c.true_block, 1>>)
                ELSE Walk("ExecSeq", <<r.rt, funcs, c.false_block, 1>>)
      [] c.op = "invoke" -> X(Walk("ExecInvoke", <<rt, funcs, c>>).rt, FALSE)
      [] c.op = "brExit" -> X(LogJump(rt, c, "none"), TRUE)
      [] c.op = "while" -> Walk("ExecWhile", <<rt, funcs, c, 0>>)
      [] c.op = "repeat" -> Walk("ExecRepeat", <<rt, funcs, c, 0>>)
      [] c.op = "case" ->
            LET r == Walk("EvalCode", <<rt, funcs, c.case_value>>)
            IN  IF Failed(r.rt) THEN X(r.rt, FALSE)
                ELSE Walk("ExecCase", <<r.rt, funcs, c, r.value, 1>>)
      [] OTHER -> X(Throw(rt, Crash("BadCode")), FALSE)

\* the blocks of a case statement from test i: the first when block whose
\* value equals the case value, the unmatched block if none does
ExecCase(rt, funcs, c, v, i) ==
    IF i > Len(c.matches) THEN Walk("ExecSeq", <<rt, funcs, c.unmatched, 1>>)
    ELSE LET r == Walk("EvalCode", <<rt, funcs, c.matches[i].expression>>)
         IN  IF Failed(r.rt) THEN X(r.rt, FALSE)
             ELSE IF r.value.value = v.value
             THEN Walk("ExecSeq", <<r.rt, funcs, c.matches[i].block, 1>>)
             ELSE Walk("ExecCase", <<r.rt, funcs, c, v, i + 1>>)

\* the loop block of a while or repeat statement from position i: its
\* statements are emitted one after another into the one block, so a
\* return statement among them leaves its branch in mid-block
ExecLoopBlock(rt, funcs, code, i) ==
    IF i > Len(code) THEN X(rt, FALSE)
    ELSE IF code[i].op = "brExit"
    THEN CASE rt.midblock = "first" -> X(LogJump(rt, code[i], "first"), TRUE)
           [] rt.midblock = "last" ->
                Walk("ExecLoopBlock", <<LogJump(rt, code[i], "last"), funcs, code, i + 1>>)
           [] OTHER -> X(Throw(rt, Crash("Malformed")), FALSE)
    ELSE LET r == Walk("ExecInstr", <<rt, funcs, code[i]>>)
         IN  IF Failed(r.rt) \/ r.exit THEN r
             ELSE Walk("ExecLoopBlock", <<r.rt, funcs, code, i + 1>>)

\* pre_block and loop_block of a while statement, pass n; a loop still
\* running after MaxIterations passes is cut off
ExecWhile(rt, funcs, c, n) ==
    LET r == Walk("EvalCode", <<rt, funcs, c.condition>>)
        b == Walk("ExecLoopBlock", <<r.rt, funcs, c.loop_block, 1>>)
    IN  IF Failed(r.rt) THEN X(r.rt, FALSE)
        ELSE IF r.value.value = 0 THEN X(r.rt, FALSE)
        ELSE IF n >= MaxIterations THEN X(Throw(r.rt, Crash("LoopBound")), FALSE)
        ELSE IF Failed(b.rt) \/ b.exit THEN b
        ELSE Walk("ExecWhile", <<b.rt, funcs, c, n + 1>>)

\* loop_block of a repeat statement, pass n
ExecRepeat(rt, funcs, c, n) ==
    LET b == Walk("ExecLoopBlock", <<rt, funcs, c.loop_block, 1>>)
        r == Walk("EvalCode", <<b.rt, funcs, c.condition>>)
    IN  IF n >= MaxIterations THEN X(Throw(rt, Crash("LoopBound")), FALSE)
        ELSE IF Failed(b.rt) \/ b.exit THEN b
        ELSE IF Failed(r.rt) THEN X(r.rt, FALSE)
        ELSE IF r.value.value # 0 THEN X(r.rt, FALSE)
        ELSE Walk("ExecRepeat", <<r.rt, funcs, c, n + 1>>)

\* a block of instructions from position i
ExecSeq(rt, funcs, code, i) ==
    IF i > Len(code) THEN X(rt, FALSE)
    ELSE LET r == Walk("ExecInstr", <<rt, funcs, code[i]>>)
         IN  IF Failed(r.rt) \/ r.exit THEN r ELSE Walk("ExecSeq", <<r.rt, funcs, code, i + 1>>)

-----------------------------------------------------------------------------
(* The objects that live across the REPL loop of main(): the Environment,   *)
(* the Cache, and the depth member of the parsed ReturnStmt nodes that the  *)
(* templates keep.  A session record S holds them; the stages of one        *)
(* compilation unit are functions from session to session.                  *)

EmptyLog ==
    [calls |-> {}, checked |-> <<>>, tables |-> {}, inits |-> {}, binds |-> {},
     sites |-> {}, bodies |-> {}, returns |-> {}, misplaced |-> {}, members |-> {},
     stmts |-> {}]

\* the walker objects main() constructs: TypeCodeGen(&environment, &functions)
\* and StmtCodeGen(jit), both outside a function
Walker(S, log) ==
    [frames |-> S.frames, cur |-> S.cur, functions |-> S.functions,
     classes |-> S.classes, instantiations |-> S.instantiations,
     return_depth |-> S.return_depth, gen |-> NewGen(FALSE), depth |-> -1,
     err |-> NoError, log |-> log]

\* the define scopes reachable from id through enclosing
RECURSIVE Ancestors(_, _)
Ancestors(fr, id) ==
    IF id = 0 THEN {} ELSE {id} \cup Ancestors(fr, fr[id].enclosing)

\* std::shared_ptr<DefineScope>: a define scope lives as long as the
\* Environment, an Instantiation or an inner define scope points to it
Collect(S) ==
    LET roots == {GlobalDefineScope, S.cur}
                   \cup {S.instantiations[i].scope : i \in 1..Len(S.instantiations)}
        live == UNION {Ancestors(S.frames, id) : id \in roots}
        Renum(id) == IF id = 0 THEN 0 ELSE Cardinality({j \in live : j <= id})
        Old(k) == CHOOSE id \in live : Renum(id) = k
    IN  [S EXCEPT
            !.frames = [k \in 1..Cardinality(live) |->
                          [enclosing |-> Renum(S.frames[Old(k)].enclosing),
                           vars |-> S.frames[Old(k)].vars]],
            !.cur = Renum(S.cur),
            !.instantiations = [i \in 1..Len(S.instantiations) |->
                                  [S.instantiations[i] EXCEPT !.scope = Renum(@)]]]

\* what a walker leaves in the Environment and the Cache
Store(S, st) ==
    Collect([S EXCEPT !.frames = st.frames, !.cur = st.cur,
                      !.functions = st.functions, !.classes = st.classes,
                      !.instantiations = st.instantiations,
                      !.return_depth = st.return_depth])

\* what a read past the end of an argument vector may do: fault, or yield
\* a value that is taken for a type
Overrun(fault, type) == [fault |-> fault, type |-> type]
Overruns ==
    {Overrun(TRUE, Prim(Unset))}
        \cup {Overrun(FALSE, t) : t \in {Prim(Nil), Prim(Integer), Prim(String)}}

\* the TypeCodeGen walker in a run in which such a read does `overrun`
TypeWalker(S, log, overrun) ==
    [frames |-> S.frames, cur |-> S.cur, functions |-> S.functions,
     classes |-> S.classes, instantiations |-> S.instantiations,
     return_depth |-> S.return_depth, gen |-> NewGen(FALSE), depth |-> -1,
     err |-> NoError, log |-> log, overrun |-> overrun]

\* main.cpp 68-69: type_code_gen(ast)
TypeStage(S, unit, log, overrun) ==
    LET st == Walk("TypeCodeGenStmt", <<TypeWalker(S, log, overrun), unit>>)
    IN  [S |-> Store(S, st), err |-> st.err, log |-> st.log]

\* main.cpp 70: the JIT constructor calls initialize()
JITStage(S, log) ==
    LET r == Walk("JITFunctions", <<Walker(S, log), 1, <<>>>>)
    IN  [S |-> Store(S, r.st), err |-> r.st.err, log |-> r.st.log, funcs |-> r.code]

\* main.cpp 71-72: code_gen(ast) into the main function
CodeStage(S, unit, log) ==
    LET w == Walker(S, log)
        r == LogStmt(w, Walk("StmtCodeGen", <<w, unit>>), unit)
    IN  [S |-> Store(S, r.st), err |-> r.st.err, log |-> r.st.log, main |-> r.code]

\* main.cpp 73: JIT::getExecFunction, which calls cache->clearInstantiations()
ExecFunctionStage(S) == Collect([S EXCEPT !.instantiations = <<>>])

\* a read that reinterprets the payload of a value of another type
Mismatched(accesses) == {a \in accesses : a.kind = "read" /\ a.static # a.found}

\* main.cpp 74: stmtFunc()
RunStage(S, code) ==
    LET r == Walk("ExecSeq", <<NewRuntime(S.scopes, S.this_ptrs, code.midblock),
                     code.functions, code.main, 1>>)
    IN  [S |-> [S EXCEPT !.scopes = r.rt.scopes, !.this_ptrs = r.rt.this_ptrs],
         err |-> r.rt.err, accesses |-> r.rt.accesses, methods |-> r.rt.methods,
         returns |-> r.rt.returns, exits |-> r.rt.exits]

\* the outermost define scope of a chain
RECURSIVE Outermost(_, _)
Outermost(fr, id) ==
    IF fr[id].enclosing = 0 THEN id ELSE Outermost(fr, fr[id].enclosing)

\* Environment::reset; with no Value Scope left the first test reads
\* through a null pointer: the scopes stay as they are, and the runs that
\* use reset take the process to have stopped
reset(S) ==
    Collect([S EXCEPT !.scopes = IF @ = <<>> THEN @ ELSE SubSeq(@, 1, 1),
                      !.cur = Outermost(S.frames, S.cur),
                      !.this_ptrs = <<>>])

\* the Cache as a statement finds it: the templates, the depth members of
\* the return statements they hold, and each Instantiation with the
\* bindings of the Type Scope it points to
CacheView(S) ==
    [functions |-> S.functions, classes |-> S.classes,
     return_depth |-> S.return_depth,
     instantiations |->
        [i \in 1..Len(S.instantiations) |->
            LET instantiation == S.instantiations[i]
            IN  [name |-> instantiation.name,
                 parameter_types |-> instantiation.parameter_types,
                 return_type |-> instantiation.return_type,
                 null_scope |-> instantiation.scope = 0,
                 bindings |-> IF instantiation.scope = 0 THEN EmptyMap
                              ELSE S.frames[instantiation.scope].vars]]]

\* one whole pass of the loop body, main.cpp 67-79, on a session: the
\* session it leaves, whether the unit ran to the end, where it stopped,
\* the Cache after type inference (typed) and after code generation, as
\* far as it went (generated).
\* A unit that reads past its arguments does not run to the end whatever
\* the read yields (the arity check follows the parameter loop), so the
\* outcome of that read does not show in what RunUnit returns.
\* midblock is what the built code does at a branch in mid-block.
RunUnitIn(S, unit, midblock) ==
    LET t == Walk("TypeStage", <<S, unit, EmptyLog, Overrun(TRUE, Prim(Unset))>>)
        j == Walk("JITStage", <<t.S, t.log>>)
        c == Walk("CodeStage", <<j.S, unit, j.log>>)
        x == Walk("RunStage", <<ExecFunctionStage(c.S),
                                [functions |-> j.funcs, main |-> c.main,
                                 midblock |-> midblock]>>)
        Stop(T, stage) == [ok |-> FALSE, S |-> reset(T.S), err |-> T.err, stage |-> stage,
                           methods |-> IF stage = "exec" THEN T.methods ELSE {},
                           returns |-> IF stage = "exec" THEN T.returns ELSE {},
                           exits |-> IF stage = "exec" THEN T.exits ELSE {},
                           log |-> IF stage = "exec" THEN c.log ELSE T.log,
                           left |-> T.S,
                           typed |-> CacheView(t.S),
                           generated |-> CacheView(IF stage = "type" THEN t.S
                                                   ELSE IF stage = "jit" THEN j.S
                                                   ELSE c.S)]
    IN  IF t.err.kind # "None" THEN Stop(t, "type")
        ELSE IF j.err.kind # "None" THEN Stop(j, "jit")
        ELSE IF c.err.kind # "None" THEN Stop(c, "code")
        ELSE IF x.err.kind # "None" THEN Stop(x, "exec")
        ELSE IF Mismatched(x.accesses) # {} THEN Stop(x, "exec")
        ELSE [ok |-> TRUE, S |-> x.S, err |-> NoError, stage |-> "done",
              methods |-> x.methods, returns |-> x.returns, exits |-> x.exits,
              log |-> c.log, left |-> x.S,
              typed |-> CacheView(t.S), generated |-> CacheView(c.S)]

\* the same for a unit that has no return statement directly in a loop
\* block, where that outcome does not show
RunUnit(S, unit) == Walk("RunUnitIn", <<S, unit, "fault">>)

RECURSIVE BagAddAll(_, _)
BagAddAll(bag, keys) ==
    IF keys = <<>> THEN bag ELSE BagAddAll(BagAdd(bag, Head(keys)), Tail(keys))

\* Environment environment; Cache functions;
Session0 ==
    [frames |-> <<[enclosing |-> 0, vars |-> EmptyMap]>>, cur |-> GlobalDefineScope,
     scopes |-> <<EmptyMap>>, this_ptrs |-> <<>>, functions |-> EmptyMap,
     classes |-> EmptyMap, instantiations |-> <<>>, return_depth |-> EmptyMap]

Pending == [ok |-> FALSE, ref_ok |-> FALSE, stage |-> "pending", err |-> NoError]

\* the end of a unit: its outcome, and the reference session, in which only
\* the units that ran to the end were ever entered
Finish(h, unit, ok, stage, err) ==
    LET u == Walk("RunUnit", <<h.ref, unit>>)
    IN  [h EXCEPT !.outcome = [ok |-> ok, ref_ok |-> u.ok, stage |-> stage, err |-> err],
                  !.ref = IF u.ok THEN u.S ELSE @]

\* where the loop goes after a stage
After(err, next) ==
    IF err.kind = "None" THEN next ELSE IF err.kind = "Crash" THEN "crashed" ELSE "catch"

\* main.cpp 68-69 on a session: the session, the exception, the history and
\* the module it leaves, and where the loop goes next
TypeInferenceStep(S, unit, h, code, overrun) ==
    LET t == Walk("TypeStage", <<S, unit, h.log, overrun>>)
        h1 == [h EXCEPT !.log = t.log,
                        !.since_clear = BagAddAll(@, t.log.checked),
                        !.checks = BagAddAll(@, t.log.checked)]
    IN  [S |-> t.S, err |-> t.err, pc |-> After(t.err, "jit"), module |-> code,
         hist |-> IF t.err.kind = "None" THEN h1
                  ELSE Walk("Finish", <<h1, unit, FALSE, "type", t.err>>)]

\* main.cpp 70
JITInitializeStep(S, unit, h, code) ==
    LET j == Walk("JITStage", <<S, h.log>>)
        h1 == [h EXCEPT !.log = j.log]
    IN  [S |-> j.S, err |-> j.err, pc |-> After(j.err, "code"),
         module |-> [functions |-> j.funcs, main |-> <<>>],
         hist |-> IF j.err.kind = "None" THEN h1
                  ELSE Walk("Finish", <<h1, unit, FALSE, "jit", j.err>>)]

\* main.cpp 71-72
CodeGenStep(S, unit, h, code) ==
    LET c == Walk("CodeStage", <<S, unit, h.log>>)
        h1 == [h EXCEPT !.log = c.log]
    IN  [S |-> c.S, err |-> c.err, pc |-> After(c.err, "link"),
         module |-> [code EXCEPT !.main = c.main],
         hist |-> IF c.err.kind = "None" THEN h1
                  ELSE Walk("Finish", <<h1, unit, FALSE, "code", c.err>>)]

\* main.cpp 74; a read through a pointer of another type is undefined: the
\* process may go on or die (fault)
ExecuteStep(S, unit, h, code, fault, midblock) ==
    LET x == Walk("RunStage", <<S, code @@ [midblock |-> midblock]>>)
        h1 == [h EXCEPT !.accesses = x.accesses]
        err == IF fault THEN Crash("BadAccess") ELSE x.err
    IN  [S |-> x.S, err |-> err, pc |-> After(err, "prompt"), module |-> code,
         possible |-> fault => Mismatched(x.accesses) # {},
         hist |-> IF err.kind = "None" THEN Walk("Finish", <<h1, unit, TRUE, "done", err>>)
                  ELSE Walk("Finish", <<h1, unit, FALSE, "exec", err>>)]

\* a data member read as the operand of a statement: TypeEvalGen, then
\* ExprCodeGen, then the emitted getObjectData and load
MemberStep(S, node) ==
    LET t == Walk("TypeEvalGen", <<TypeWalker(S, EmptyLog, Overrun(TRUE, Prim(Unset))), node>>)
        g == Walk("ExprCodeGen", <<Walker(Store(S, t.st), t.st.log), node>>)
        v == Walk("EvalCode", <<NewRuntime(S.scopes, S.this_ptrs, "fault"), <<>>, g.code>>)
        Res(stage, err, log, type, indices, value) ==
            [stage |-> stage, err |-> err, log |-> log, type |-> type,
             indices |-> indices, value |-> value]
    IN  IF Failed(t.st)
        THEN [S |-> reset(Store(S, t.st)),
              res |-> Res("type", t.st.err, t.st.log, Prim(Unset), <<>>, NilValue)]
        ELSE IF Failed(g.st)
        THEN [S |-> reset(Store(S, g.st)),
              res |-> Res("code", g.st.err, g.st.log, t.type, <<>>, NilValue)]
        ELSE IF Failed(v.rt)
        THEN [S |-> reset(Store(S, g.st)),
              res |-> Res("exec", v.rt.err, g.st.log, t.type, g.code.indices, NilValue)]
        ELSE [S |-> Store(S, g.st),
              res |-> Res("done", NoError, g.st.log, t.type, g.code.indices, v.value)]

\* main.cpp 68-69 and, when the walker threw, 76-79
InferStep(S, unit, overrun) ==
    LET t == Walk("TypeStage", <<S, unit, EmptyLog, overrun>>)
    IN  [S |-> IF t.err.kind = "None" THEN t.S ELSE reset(t.S),
         res |-> [err |-> t.err, log |-> t.log, before |-> S]]

\* type inference of one expression, then its code generation
ExprStep(S, node, overrun) ==
    LET t == Walk("TypeEvalGen", <<TypeWalker(S, EmptyLog, overrun), node>>)
        g == Walk("ExprCodeGen", <<Walker(Store(S, t.st), t.st.log), node>>)
        none == [ok |-> FALSE, type |-> Prim(Unset), err |-> NoError]
    IN  IF Failed(t.st)
        THEN [S |-> reset(Store(S, t.st)),
              res |-> [infer |-> [ok |-> FALSE, type |-> Prim(Unset), err |-> t.st.err],
                       gen |-> none]]
        ELSE IF Failed(g.st)
        THEN [S |-> reset(Store(S, g.st)),
              res |-> [infer |-> [ok |-> TRUE, type |-> t.type, err |-> NoError],
                       gen |-> [ok |-> FALSE, type |-> Prim(Unset), err |-> g.st.err]]]
        ELSE [S |-> Store(S, g.st),
              res |-> [infer |-> [ok |-> TRUE, type |-> t.type, err |-> NoError],
                       gen |-> [ok |-> TRUE, type |-> g.type, err |-> NoError]]]

-----------------------------------------------------------------------------
\* f applied to the arguments x
Walk(f, x) ==
    CASE f = "TypeEvalGen" -> TypeEvalGen(x[1], x[2])
      [] f = "TypeEvalArgs" -> TypeEvalArgs(x[1], x[2], x[3], x[4])
      [] f = "TypeLeft" -> TypeLeft(x[1], x[2], x[3], x[4])
      [] f = "TypeRight" -> TypeRight(x[1], x[2], x[3], x[4])
      [] f = "TypeCall" -> TypeCall(x[1], x[2], x[3])
      [] f = "TypeMethodCall" -> TypeMethodCall(x[1], x[2])
      [] f = "TypeCases" -> TypeCases(x[1], x[2], x[3])
      [] f = "addFunctionInstantiation" -> addFunctionInstantiation(x[1], x[2], x[3])
      [] f = "TypeCodeGenStmt" -> TypeCodeGenStmt(x[1], x[2])
      [] f = "TypeCodeGenSeq" -> TypeCodeGenSeq(x[1], x[2], x[3], x[4])
      [] f = "TypeCodeGenList" -> TypeCodeGenList(x[1], x[2])
      [] f = "ExprCodeGen" -> ExprCodeGen(x[1], x[2])
      [] f = "ExprCodeArgs" -> ExprCodeArgs(x[1], x[2], x[3], x[4], x[5])
      [] f = "ExprLeft" -> ExprLeft(x[1], x[2], x[3], x[4], x[5])
      [] f = "ExprRight" -> ExprRight(x[1], x[2], x[3], x[4], x[5])
      [] f = "ExprBoolean" -> ExprBoolean(x[1], x[2], x[3], x[4], x[5])
      [] f = "ExprCall" -> ExprCall(x[1], x[2], x[3], x[4])
      [] f = "ExprMethodCall" -> ExprMethodCall(x[1], x[2], x[3])
      [] f = "StmtCodeGen" -> StmtCodeGen(x[1], x[2])
      [] f = "StmtCodeGenSeq" -> StmtCodeGenSeq(x[1], x[2], x[3], x[4])
      [] f = "StmtCodeGenList" -> StmtCodeGenList(x[1], x[2])
      [] f = "JITFunctions" -> JITFunctions(x[1], x[2], x[3])
      [] f = "EvalCode" -> EvalCode(x[1], x[2], x[3])
      [] f = "EvalArgs" -> EvalArgs(x[1], x[2], x[3], x[4], x[5])
      [] f = "ExecSeq" -> ExecSeq(x[1], x[2], x[3], x[4])
      [] f = "ExecInstr" -> ExecInstr(x[1], x[2], x[3])
      [] f = "ExecInvoke" -> ExecInvoke(x[1], x[2], x[3])
      [] f = "ExecCase" -> ExecCase(x[1], x[2], x[3], x[4], x[5])
      [] f = "ExecLoopBlock" -> ExecLoopBlock(x[1], x[2], x[3], x[4])
      [] f = "ExecWhile" -> ExecWhile(x[1], x[2], x[3], x[4])
      [] f = "ExecRepeat" -> ExecRepeat(x[1], x[2], x[3], x[4])
      [] f = "StmtCases" -> StmtCases(x[1], x[2], x[3], x[4], x[5])
      [] f = "TypeStage" -> TypeStage(x[1], x[2], x[3], x[4])
      [] f = "JITStage" -> JITStage(x[1], x[2])
      [] f = "CodeStage" -> CodeStage(x[1], x[2], x[3])
      [] f = "RunStage" -> RunStage(x[1], x[2])
      [] f = "RunUnit" -> RunUnit(x[1], x[2])
      [] f = "RunUnitIn" -> RunUnitIn(x[1], x[2], x[3])
      [] f = "Finish" -> Finish(x[1], x[2], x[3], x[4], x[5])
      [] f = "ExprStep" -> ExprStep(x[1], x[2], x[3])
      [] f = "InferStep" -> InferStep(x[1], x[2], x[3])
      [] f = "MemberStep" -> MemberStep(x[1], x[2])
      [] f = "TypeInferenceStep" -> TypeInferenceStep(x[1], x[2], x[3], x[4], x[5])
      [] f = "JITInitializeStep" -> JITInitializeStep(x[1], x[2], x[3], x[4])
      [] f = "CodeGenStep" -> CodeGenStep(x[1], x[2], x[3], x[4])
      [] f = "ExecuteStep" -> ExecuteStep(x[1], x[2], x[3], x[4], x[5], x[6])

-----------------------------------------------------------------------------
(* The statements a user may enter at the prompt.  ast/Expr.hpp and         *)
(* ast/Stmt.hpp give the node shapes; identifiers are byte strings.         *)

Name_v == <<118>>
Name_f == <<102>>
Name_g == <<103>>
Name_a == <<97>>
Name_b == <<98>>
Name_n == <<110>>
Name_c == <<99>>
Name_x == <<120>>
Name_A == <<65>>
Name_m == <<109>>

ValueNode(type, value) == [node |-> "ValueNode", type |-> type, value |-> value]
VariableNode(name) == [node |-> "VariableNode", name |-> name]
CallNode(name, args) == [node |-> "CallNode", name |-> name, args |-> args]
ConvNode(to_type, expression) ==
    [node |-> "ConvNode", to_type |-> to_type, expression |-> expression]
ListNode(association, list) ==
    [node |-> "ListNode", association |-> association, list |-> list]
OperatorNode(op) == [op |-> op]

PrintStmt(expression) == [stmt |-> "PrintStmt", expression |-> expression]
InitStmt(name, assign, value) ==
    [stmt |-> "InitStmt", name |-> name, assign |-> assign, value |-> value]
AssignStmt(name, value) == [stmt |-> "AssignStmt", name |-> name, value |-> value]
IfStmt(condition, true_test, false_test) ==
    [stmt |-> "IfStmt", condition |-> condition, true_test |-> true_test,
     false_test |-> false_test]
Function(name, parameters, function_body) ==
    [stmt |-> "Function", name |-> name, parameters |-> parameters,
     function_body |-> function_body]
FunctionCall(name, args) == [stmt |-> "FunctionCall", name |-> name, args |-> args]
ReturnStmt(expression, id) == [stmt |-> "ReturnStmt", expression |-> expression, id |-> id]
Class(name, variables, methods) ==
    [stmt |-> "Class", name |-> name, variables |-> variables, methods |-> methods]

WhileStmt(condition, loop_block) ==
    [stmt |-> "WhileStmt", condition |-> condition, loop_block |-> loop_block]
RepeatStmt(loop_block, condition) ==
    [stmt |-> "RepeatStmt", loop_block |-> loop_block, condition |-> condition]
WhenStmt(expression, block) == [expression |-> expression, block |-> block]
CaseStmt(case_value, matches, unmatched) ==
    [stmt |-> "CaseStmt", case_value |-> case_value, matches |-> matches,
     unmatched |-> unmatched]
MethodCall(name, member_list, method, args) ==
    [stmt |-> "MethodCall", name |-> name, member_list |-> member_list,
     method |-> method, args |-> args]
DataAssignStmt(name, member_list, value) ==
    [stmt |-> "DataAssignStmt", name |-> name, member_list |-> member_list,
     value |-> value]
MethodNode(name, member_list, method, args) ==
    [node |-> "MethodNode", name |-> name, member_list |-> member_list,
     method |-> method, args |-> args]
DataNode(name, member_list) ==
    [node |-> "DataNode", name |-> name, member_list |-> member_list]

\* n - 1
Pred_n ==
    ListNode("Left", <<VariableNode(Name_n), OperatorNode("Minus"), ValueNode(Integer, 1)>>)

\* let v <- "s"
LetV == InitStmt(Name_v, "Assign", ValueNode(String, 1))
\* fn f() print v; return 1 endfn
FnF == Function(Name_f, <<>>,
                <<PrintStmt(VariableNode(Name_v)), ReturnStmt(ValueNode(Integer, 1), 1)>>)
\* fn g(v) f() endfn
FnG == Function(Name_g, <<Name_v>>, <<FunctionCall(Name_f, <<>>)>>)
\* g(1)
CallG == FunctionCall(Name_g, <<ValueNode(Integer, 1)>>)
\* fn a(n) if n then a(n - 1); b(n - 1); b(n - 1) endif endfn
FnA == Function(Name_a, <<Name_n>>,
                <<IfStmt(VariableNode(Name_n),
                         <<FunctionCall(Name_a, <<Pred_n>>),
                           FunctionCall(Name_b, <<Pred_n>>),
                           FunctionCall(Name_b, <<Pred_n>>)>>,
                         <<>>)>>)
\* fn b(n) if n then a(n - 1) endif endfn
FnB == Function(Name_b, <<Name_n>>,
                <<IfStmt(VariableNode(Name_n), <<FunctionCall(Name_a, <<Pred_n>>)>>, <<>>)>>)
\* a(1)
CallA == FunctionCall(Name_a, <<ValueNode(Integer, 1)>>)
\* if true then let c = 1; let x <- c; x <- 2 endif
Block == IfStmt(ValueNode(Boolean, 1),
                <<InitStmt(Name_c, "Equal", ValueNode(Integer, 1)),
                  InitStmt(Name_x, "Assign", VariableNode(Name_c)),
                  AssignStmt(Name_x, ValueNode(Integer, 2))>>,
                <<>>)
\* v <- f()
AssignCall == AssignStmt(Name_v, CallNode(Name_f, <<>>))
\* class A(m) endclass
ClassA == Class(Name_A, <<Name_m>>, <<>>)
\* v <- A(1)
AssignObject == AssignStmt(Name_v, CallNode(Name_A, <<ValueNode(Integer, 1)>>))
\* v <- "t"
AssignV == AssignStmt(Name_v, ValueNode(String, 2))
\* let v = true + true
LetSum == InitStmt(Name_v, "Equal",
                   ListNode("Left", <<ValueNode(Boolean, 1), OperatorNode("Plus"),
                                      ValueNode(Boolean, 1)>>))

Programs == {LetV, FnF, FnG, CallG, FnA, FnB, CallA, Block, AssignCall, ClassA,
             AssignObject, AssignV, LetSum}

MaxUnits == 4       \* statements entered in one session

-----------------------------------------------------------------------------
(* The REPL loop of main(), main.cpp 58-92, one action per stage of the     *)
(* try block and one for the catch block.                                   *)

Sess ==
    [frames |-> frames, cur |-> current_define_scope, scopes |-> scopes,
     this_ptrs |-> this_ptrs, functions |-> functions, classes |-> classes,
     instantiations |-> instantiations, return_depth |-> return_depth]

SetSess(S) ==
    /\ frames' = S.frames
    /\ current_define_scope' = S.cur
    /\ scopes' = S.scopes
    /\ this_ptrs' = S.this_ptrs
    /\ functions' = S.functions
    /\ classes' = S.classes
    /\ instantiations' = S.instantiations
    /\ return_depth' = S.return_depth

Init ==
    /\ frames = Session0.frames
    /\ current_define_scope = Session0.cur
    /\ scopes = Session0.scopes
    /\ this_ptrs = Session0.this_ptrs
    /\ functions = Session0.functions
    /\ classes = Session0.classes
    /\ instantiations = Session0.instantiations
    /\ return_depth = Session0.return_depth
    /\ pc = "prompt"
    /\ ast = <<>>
    /\ module = <<>>
    /\ error = NoError
    /\ hist = [units |-> 0, log |-> EmptyLog, since_clear |-> EmptyMap,
               checks |-> EmptyMap, accesses |-> {}, outcome |-> Pending,
               before |-> Session0, ref |-> Session0]
    /\ arg = <<>>
    /\ res = <<>>

\* main.cpp 66: parse_statement(input, ast)
ParseStatement ==
    /\ pc = "prompt"
    /\ hist.units < MaxUnits
    /\ \E unit \in Programs : ast' = unit
    /\ pc' = "type"
    /\ hist' = [hist EXCEPT !.units = @ + 1, !.log = EmptyLog, !.accesses = {},
                            !.outcome = Pending, !.before = Sess]
    /\ module' = <<>>
    /\ error' = NoError
    /\ UNCHANGED <<frames, current_define_scope, scopes, this_ptrs, functions, classes,
                   instantiations, return_depth, arg, res>>

\* what a stage leaves behind
Apply(r) ==
    /\ SetSess(r.S)
    /\ error' = r.err
    /\ pc' = r.pc
    /\ module' = r.module
    /\ hist' = r.hist

ApplyPossible(r) == r.possible /\ Apply(r)

\* main.cpp 68-69
TypeInference ==
    /\ pc = "type"
    /\ \E overrun \in Overruns :
          Apply(Walk("TypeInferenceStep", <<Sess, ast, hist, module, overrun>>))
    /\ UNCHANGED <<ast, arg, res>>

\* main.cpp 70
JITInitialize ==
    /\ pc = "jit"
    /\ Apply(Walk("JITInitializeStep", <<Sess, ast, hist, module>>))
    /\ UNCHANGED <<ast, arg, res>>

\* main.cpp 71-72
CodeGen ==
    /\ pc = "code"
    /\ Apply(Walk("CodeGenStep", <<Sess, ast, hist, module>>))
    /\ UNCHANGED <<ast, arg, res>>

\* main.cpp 73
GetExecFunction ==
    /\ pc = "link"
    /\ SetSess(ExecFunctionStage(Sess))
    /\ pc' = "exec"
    /\ hist' = [hist EXCEPT !.since_clear = EmptyMap]
    /\ UNCHANGED <<ast, module, error, arg, res>>

\* main.cpp 74
Execute ==
    /\ pc = "exec"
    /\ \E fault \in BOOLEAN, midblock \in MidBlockOutcomes :
          ApplyPossible(Walk("ExecuteStep", <<Sess, ast, hist, module, fault, midblock>>))
    /\ UNCHANGED <<ast, arg, res>>

\* main.cpp 76-79
CatchError ==
    /\ pc = "catch"
    /\ SetSess(reset(Sess))
    /\ pc' = "prompt"
    /\ error' = NoError
    /\ UNCHANGED <<ast, module, hist, arg, res>>

Next ==
    \/ ParseStatement
    \/ TypeInference
    \/ JITInitialize
    \/ CodeGen
    \/ GetExecFunction
    \/ Execute
    \/ CatchError

Spec == Init /\ [][Next]_vars

-----------------------------------------------------------------------------
(* The two expression walkers side by side: from a session in which         *)
(*     let i <- 1       let k = 1.5       fn id(x) return x endfn           *)
(* were entered, one expression is type-inferred (TypeEvalGen) and then,    *)
(* if inference accepted it, code-generated (ExprCodeGen).                  *)

Name_i == <<105>>
Name_k == <<107>>
Name_id == <<105, 100>>

LetI == InitStmt(Name_i, "Assign", ValueNode(Integer, 1))
LetK == InitStmt(Name_k, "Equal", ValueNode(Float, 1))
FnId == Function(Name_id, <<Name_x>>, <<ReturnStmt(VariableNode(Name_x), 2)>>)

RECURSIVE RunUnits(_, _)
RunUnits(S, units) ==
    IF units = <<>> THEN S
    ELSE CHOOSE U \in {RunUnits(T, Tail(units)) :
                          T \in {Walk("RunUnit", <<S, Head(units)>>).S}} : TRUE

ExprSession == RunUnits(Session0, <<LetI, LetK, FnId>>)

MaxChain == 3       \* operands in an arithmetic chain

Literals ==
    {ValueNode(Boolean, 1), ValueNode(Integer, 1), ValueNode(Float, 1),
     ValueNode(Complex, 1), ValueNode(String, 1)}
Operands == Literals \cup {VariableNode(Name_i), VariableNode(Name_k)}
NumOperands ==
    {ValueNode(Integer, 1), ValueNode(Float, 1), VariableNode(Name_i), VariableNode(Name_k)}
ArithOperators == {"Plus", "Minus", "Times", "Divide", "FloorDivide", "Modulo"}
ChainOperators == {"Plus", "Divide", "FloorDivide"}

\* the operand/operator lists of the numeric chains of n operands
RECURSIVE ChainsOf(_)
ChainsOf(n) ==
    IF n = 1 THEN {<<a>> : a \in NumOperands}
    ELSE {c \o <<OperatorNode(o), a>> :
            c \in ChainsOf(n - 1), o \in ChainOperators, a \in NumOperands}

Exprs ==
    {ListNode("Left", c) : c \in UNION {ChainsOf(n) : n \in 2..MaxChain}}
    \cup {ListNode("Left", <<a, OperatorNode(o), b>>) :
            a \in Operands, o \in ArithOperators, b \in Operands}
    \cup {ListNode("Right", <<a, OperatorNode("Exponent"), b>>) :
            a \in NumOperands \cup {ValueNode(Complex, 1)},
            b \in NumOperands \cup {ValueNode(Complex, 1)}}
    \cup {ListNode("Unary", <<OperatorNode(o), a>>) : o \in {"Minus", "Not"}, a \in Operands}
    \cup {ListNode("Boolean", <<a, OperatorNode(o), b>>) :
            a \in Operands, o \in {"Less", "Equal", "And"}, b \in Operands}
    \cup {ConvNode(t, a) :
            t \in {Integer, Float, Complex, String, Real, Imaginary}, a \in Operands}
    \cup {CallNode(Name_id, <<a>>) : a \in NumOperands}
    \cup {[node |-> "InputNode"]}
    \cup Operands

InitExprFrom(S) ==
    /\ frames = S.frames
    /\ current_define_scope = S.cur
    /\ scopes = S.scopes
    /\ this_ptrs = S.this_ptrs
    /\ functions = S.functions
    /\ classes = S.classes
    /\ instantiations = S.instantiations
    /\ return_depth = S.return_depth
    /\ pc = "input"
    /\ ast = <<>>
    /\ module = <<>>
    /\ error = NoError
    /\ hist = <<>>
    /\ arg \in Exprs
    /\ res = <<>>

InitExpr == InitExprFrom(ExprSession)

ApplyExpr(r) ==
    /\ SetSess(r.S)
    /\ res' = r.res
    /\ pc' = "typed"

InferAndGenerate ==
    /\ pc = "input"
    /\ \E overrun \in Overruns : ApplyExpr(Walk("ExprStep", <<Sess, arg, overrun>>))
    /\ UNCHANGED <<ast, module, error, hist, arg>>

SpecExpr == InitExpr /\ [][InferAndGenerate]_vars

-----------------------------------------------------------------------------
(* Properties of the REPL session (Spec).                                   *)

DistinctKeys(keys) == \A i, j \in 1..Len(keys) : i # j => keys[i] # keys[j]

\* C1: the instantiation table never holds two entries with the same mangled
\* key: not after any addFunctionInstantiation call of a unit (the nested
\* calls of recursive and mutually recursive bodies included), not while a
\* placeholder stands in the table, and not between units.
C1_OneEntryPerKey ==
    /\ DistinctKeys(TableKeys(instantiations))
    /\ \A t \in hist.log.tables : DistinctKeys(t)

\* a unit whose inference instantiated two functions, one of them met again
\* by a nested call
C1_Witness ==
    /\ pc = "jit"
    /\ Len(instantiations) >= 2
    /\ \E c \in hist.log.calls : c.hit

\* the first half of C2: a call that finds its key in the table returns
\* without checking the body and leaves the table as it is
HitLeavesTable == \A c \in hist.log.calls : c.hit => (c.same_table /\ c.checked = 0)

\* C2 (amended): a call whose key is in the table checks no body and leaves
\* the table unchanged, and between two clearInstantiations calls the body
\* of a template is type-checked exactly once per key of the table.
C2_OncePerKeyBetweenClears ==
    /\ HitLeavesTable
    /\ \A k \in DOMAIN hist.since_clear : hist.since_clear[k] = 1
    /\ \A i \in 1..Len(instantiations) :
            InstKey(instantiations[i]) \in DOMAIN hist.since_clear

\* a call met the finished entry of its key, and nothing was checked again
C2_Witness ==
    /\ pc = "jit"
    /\ \E c \in hist.log.calls : c.hit /\ c.finished /\ c.same_table /\ c.checked = 0
    /\ \E k \in DOMAIN hist.since_clear : hist.since_clear[k] = 1

\* C2 as stated: over the whole sequence of instantiate calls of a session
\* the body of a template is type-checked exactly once per signature.
C2_OncePerSignature ==
    /\ HitLeavesTable
    /\ \A k \in DOMAIN hist.checks : hist.checks[k] = 1

\* C4: every read and every assignment made by the code of an instantiated
\* function finds a binding whose value has the inferred type, and finds it
\* in the outermost Value Scope when inference resolved the name in the
\* global frame.
C4_LookupReachesInferredBinding ==
    \A a \in hist.accesses :
        a.in_function => (a.static = a.found /\ (a.meant_global => a.found_root))

\* C6: the binding an equals-form init of a primitive records is marked
\* constant and the binding a non-equals init records is not, in the type
\* pass and in the code pass, in every block (the Constant flag is what
\* AssignStmt tests in both passes).
C6_InitFormDecidesConstant ==
    \A i \in hist.log.inits :
        /\ (i.equals /\ i.primitive) => i.constant
        /\ ~i.equals => ~i.constant

\* C7: a unit that runs to the end in the session in which only the
\* successful units were ever entered also runs to the end in the session
\* that went through the failed units.
C7_FailureLeavesNothingBehind ==
    (hist.outcome.stage # "pending" /\ hist.outcome.ref_ok) => hist.outcome.ok

RejectedAssign(whats) ==
    /\ hist.units > 0
    /\ hist.outcome.stage \notin {"pending", "done"}
    /\ ast.stmt = "AssignStmt"
    /\ hist.outcome.err.what \in whats

\* C8: when a plain assignment was rejected for the type of its value, the
\* error is a language error and, back at the prompt, the Type Scope, the
\* Value Scope and the Cache are what they were before the statement.
C8_RejectedAssignLeavesState ==
    (pc = "prompt" /\ RejectedAssign({"VarType", "ObjectType"}))
        => (hist.outcome.err.kind = "LogicError" /\ Sess = hist.before)

\* C9: a plain assignment that is rejected for an undefined name, a constant
\* name or the type of its value is rejected by type inference, with a
\* language error, before JIT::initialize and StmtCodeGen run.
C9_InferenceRejectsAssign ==
    RejectedAssign({"VarNotExist", "NoConstantAssign", "VarType", "ObjectType"})
        => (hist.outcome.stage = "type" /\ hist.outcome.err.kind = "LogicError")

-----------------------------------------------------------------------------
(* Properties of the expression walkers (SpecExpr).                         *)

IsLeftChain(node) == node.node = "ListNode" /\ node.association = "Left"

\* the tag type inference gives an operand of a chain
OperandTag(node) ==
    IF node.node = "ValueNode" THEN node.type
    ELSE MaskType(getType(frames, current_define_scope, node.name).type)

ChainTags(node) == {OperandTag(node.list[i]) : i \in {j \in 1..Len(node.list) : j % 2 = 1}}
ChainOps(node) == {node.list[i].op : i \in {j \in 1..Len(node.list) : j % 2 = 0}}

\* C10: in the inference fold of a left-associative chain, Integer / Integer
\* is Float, Integer // Integer is Integer, and a chain that mixes Integer
\* and Float operands is Float, whatever its operators and operand order.
C10_ArithmeticChainType ==
    (pc = "typed" /\ IsLeftChain(arg) /\ ChainTags(arg) \subseteq {Integer, Float})
        => /\ res.infer.ok
           /\ (Len(arg.list) = 3 /\ ChainTags(arg) = {Integer} /\ ChainOps(arg) = {"Divide"})
                => res.infer.type = Prim(Float)
           /\ (Len(arg.list) = 3 /\ ChainTags(arg) = {Integer}
                    /\ ChainOps(arg) = {"FloorDivide"})
                => res.infer.type = Prim(Integer)
           /\ ChainTags(arg) = {Integer, Float} => res.infer.type = Prim(Float)

\* a chain of three operands, Integer first and Float last, folded to Float
C10_Witness ==
    /\ pc = "typed"
    /\ IsLeftChain(arg)
    /\ Len(arg.list) = 5
    /\ OperandTag(arg.list[1]) = Integer
    /\ OperandTag(arg.list[5]) = Float
    /\ "FloorDivide" \in ChainOps(arg)
    /\ res.infer.type = Prim(Float)

-----------------------------------------------------------------------------
(* Type inference of one statement.  The session is one in which the first  *)
(* k statements of                                                          *)
(*     let v <- "s"                                                         *)
(*     fn f() print v; return 1 endfn                                       *)
(*     fn id(x) return x endfn                                              *)
(*     fn rx() print x; return 1 endfn                                      *)
(*     class P(m) fn get() return this.m endfn                              *)
(*                fn add(n) return this.m + n endfn endclass                *)
(*     let p <- P(1)                                                        *)
(* were entered; then one statement is type-inferred (main.cpp 68-69).      *)

Name_p == <<112>>
Name_P == <<80>>
Name_h == <<104>>
Name_rx == <<114, 120>>
Name_get == <<103, 101, 116>>
Name_add == <<97, 100, 100>>

True == ValueNode(Boolean, 1)
One == ValueNode(Integer, 1)

FnRx == Function(Name_rx, <<>>,
                 <<PrintStmt(VariableNode(Name_x)), ReturnStmt(ValueNode(Integer, 1), 3)>>)
ClassP ==
    Class(Name_P, <<Name_m>>,
          <<Function(Name_get, <<>>, <<ReturnStmt(DataNode(THIS_VAR, <<Name_m>>), 4)>>),
            Function(Name_add, <<Name_n>>,
                     <<ReturnStmt(ListNode("Left", <<DataNode(THIS_VAR, <<Name_m>>),
                                                     OperatorNode("Plus"),
                                                     VariableNode(Name_n)>>), 5)>>)>>)
LetP == InitStmt(Name_p, "Assign", CallNode(Name_P, <<One>>))


Name_two == <<116, 119, 111>>
Name_same == <<115, 97, 109, 101>>
Name_none == <<110, 111, 110, 101>>
Name_ra == <<114, 97>>
Name_rb == <<114, 98>>

\* fn two(n) if n then return 1 else return "s" endif endfn
FnTwo == Function(Name_two, <<Name_n>>,
                  <<IfStmt(VariableNode(Name_n), <<ReturnStmt(One, 8)>>,
                           <<ReturnStmt(ValueNode(String, 1), 9)>>)>>)
\* fn same(n) if n then return 1 else return n endif endfn
FnSame == Function(Name_same, <<Name_n>>,
                   <<IfStmt(VariableNode(Name_n), <<ReturnStmt(One, 10)>>,
                            <<ReturnStmt(VariableNode(Name_n), 11)>>)>>)
\* fn none() print 1 endfn
FnNone == Function(Name_none, <<>>, <<PrintStmt(One)>>)
\* fn ra(n) if n then return 1 else return rb(n) endif endfn
FnRa == Function(Name_ra, <<Name_n>>,
                 <<IfStmt(VariableNode(Name_n), <<ReturnStmt(One, 12)>>,
                          <<ReturnStmt(CallNode(Name_rb, <<VariableNode(Name_n)>>), 13)>>)>>)
\* fn rb(n) ra(n); return "s" endfn
FnRb == Function(Name_rb, <<Name_n>>,
                 <<FunctionCall(Name_ra, <<VariableNode(Name_n)>>),
                   ReturnStmt(ValueNode(String, 1), 14)>>)

Name_m1 == <<109, 49>>
Name_m2 == <<109, 50>>
Name_m3 == <<109, 51>>
Name_m4 == <<109, 52>>
Name_m5 == <<109, 53>>

\* return 1; print 1
Early(id) == <<ReturnStmt(One, id), PrintStmt(One)>>

\* fn m1() return 1; print 1 endfn
FnM1 == Function(Name_m1, <<>>, Early(15))
\* fn m2() if true then return 1; print 1 endif endfn
FnM2 == Function(Name_m2, <<>>, <<IfStmt(True, Early(16), <<>>)>>)
\* fn m3() case 1 when 1 return 1; print 1 endcase endfn
FnM3 == Function(Name_m3, <<>>, <<CaseStmt(One, <<WhenStmt(One, Early(17))>>, <<>>)>>)
\* fn m4() while true return 1; print 1 endwhile endfn
FnM4 == Function(Name_m4, <<>>, <<WhileStmt(True, Early(18))>>)
\* fn m5() repeat return 1; print 1 until true endfn
FnM5 == Function(Name_m5, <<>>, <<RepeatStmt(Early(19), True)>>)

InferPrep ==
    <<LetV, FnF, FnId, FnRx, ClassP, LetP, FnTwo, FnSame, FnNone, FnRa, FnRb,
      FnM1, FnM2, FnM3, FnM4, FnM5>>

InferSessions == {RunUnits(Session0, SubSeq(InferPrep, 1, k)) : k \in 0..Len(InferPrep)}

\* if true then let x <- 1; <stmt> endif
InBlock(stmt) == IfStmt(True, <<InitStmt(Name_x, "Assign", One), stmt>>, <<>>)

\* if true then let c <- 1; <stmt> endif
InOuter(stmt) == IfStmt(True, <<InitStmt(Name_c, "Assign", One), stmt>>, <<>>)

\* calls made from the prompt and from nested blocks that bind x
SiteUnits ==
    LET calls == {FunctionCall(Name_f, <<>>), FunctionCall(Name_rx, <<>>),
                  FunctionCall(Name_id, <<VariableNode(Name_v)>>),
                  PrintStmt(CallNode(Name_id, <<CallNode(Name_f, <<>>)>>)),
                  MethodCall(Name_p, <<>>, Name_get, <<>>),
                  PrintStmt(MethodNode(Name_p, <<>>, Name_add, <<One>>))}
    IN  calls \cup {InBlock(c) : c \in calls} \cup {InOuter(InBlock(c)) : c \in calls}

\* calls of functions with two return statements, with none, and of the
\* mutually recursive pair
ReturnUnits ==
    {FunctionCall(Name_two, <<One>>), PrintStmt(CallNode(Name_same, <<One>>)),
     FunctionCall(Name_same, <<ValueNode(String, 1)>>),
     FunctionCall(Name_none, <<>>), FunctionCall(Name_ra, <<One>>),
     FunctionCall(Name_rb, <<One>>)}

\* calls of the functions that return before the end of a statement list,
\* and return statements entered at the prompt
PlacementUnits ==
    {FunctionCall(n, <<>>) : n \in {Name_m1, Name_m2, Name_m3, Name_m4, Name_m5}}
        \cup {ReturnStmt(One, 20), IfStmt(True, <<ReturnStmt(One, 21)>>, <<>>),
              WhileStmt(True, <<ReturnStmt(One, 22)>>),
              CaseStmt(One, <<>>, <<ReturnStmt(One, 23)>>)}

\* calls with fewer and with more arguments than the callee has parameters
ArityUnits ==
    {FunctionCall(Name_id, <<>>), FunctionCall(Name_id, <<One, One>>),
     FunctionCall(Name_f, <<One>>), PrintStmt(CallNode(Name_id, <<>>)),
     PrintStmt(CallNode(Name_id, <<One, ValueNode(String, 1)>>)),
     MethodCall(Name_p, <<>>, Name_add, <<>>),
     MethodCall(Name_p, <<>>, Name_get, <<One>>),
     PrintStmt(MethodNode(Name_p, <<>>, Name_add, <<One, One>>))}

\* calls of a function and of a method that do not exist, and method calls
\* on the String v
UnknownUnits ==
    {FunctionCall(Name_h, <<>>), PrintStmt(CallNode(Name_h, <<>>)),
     MethodCall(Name_p, <<>>, Name_h, <<>>),
     PrintStmt(MethodNode(Name_p, <<>>, Name_h, <<>>)),
     MethodCall(Name_v, <<>>, Name_get, <<>>),
     PrintStmt(MethodNode(Name_v, <<>>, Name_get, <<>>)),
     MethodCall(Name_p, <<Name_m>>, Name_get, <<>>)}

\* if true then let v <- 1 endif
LetVInBlock == IfStmt(True, <<InitStmt(Name_v, "Assign", One)>>, <<>>)

\* if true then let x <- 1; if true then let x <- "a" endif endif
LetXInInner ==
    InBlock(IfStmt(True, <<InitStmt(Name_x, "Assign", ValueNode(String, 1))>>, <<>>))

\* if true then let c <- 1; if true then let x <- "a" endif endif
LetXInFresh ==
    InOuter(IfStmt(True, <<InitStmt(Name_x, "Assign", ValueNode(String, 1))>>, <<>>))

\* init statements in nested blocks, for names the enclosing frames bind
\* and for a name they do not
ShadowUnits == {LetVInBlock, LetXInInner, LetXInFresh}

InferUnits ==
    SiteUnits \cup ReturnUnits \cup PlacementUnits \cup ArityUnits \cup UnknownUnits
        \cup ShadowUnits

InitInfer ==
    /\ \E S \in InferSessions :
          /\ frames = S.frames
          /\ current_define_scope = S.cur
          /\ scopes = S.scopes
          /\ this_ptrs = S.this_ptrs
          /\ functions = S.functions
          /\ classes = S.classes
          /\ instantiations = S.instantiations
          /\ return_depth = S.return_depth
    /\ pc = "input"
    /\ ast = <<>>
    /\ module = <<>>
    /\ error = NoError
    /\ hist = <<>>
    /\ arg \in InferUnits
    /\ res = <<>>

ApplyInfer(r) ==
    /\ SetSess(r.S)
    /\ res' = r.res
    /\ pc' = "inferred"

Infer ==
    /\ pc = "input"
    /\ \E overrun \in Overruns : ApplyInfer(Walk("InferStep", <<Sess, arg, overrun>>))
    /\ UNCHANGED <<ast, module, error, hist, arg>>

SpecInfer == InitInfer /\ [][Infer]_vars

Range(seq) == {seq[k] : k \in 1..Len(seq)}

\* the statement calls rx, whose body reads x, from a block that binds x
CallsRxFromBlock ==
    /\ arg \in {InBlock(FunctionCall(Name_rx, <<>>)),
                InOuter(InBlock(FunctionCall(Name_rx, <<>>)))}
    /\ Name_rx \in DOMAIN res.before.functions

\* C11: every template body checked during the inference of a statement was
\* checked in the chain body frame, parameter frame, global frame, which
\* holds no local frame of the call site (so a name bound only there is
\* undefined in the body: rx, reading x, is rejected when called from a
\* block that binds x), and every call that was typed left the call-site
\* frame current.
C11_BodyCheckedUnderGlobal ==
    pc = "inferred" =>
        /\ \A b \in res.log.bodies :
              /\ Len(b.chain) = 3
              /\ b.chain[2] = b.param
              /\ b.chain[3] = GlobalDefineScope
        /\ \A c \in res.log.sites, b \in res.log.bodies :
              b.param = c.param =>
                  Range(b.chain) \cap Range(c.site) \subseteq {GlobalDefineScope}
        /\ \A c \in res.log.sites : c.after = Head(c.site)
        /\ CallsRxFromBlock => res.err = LogicError("VarNotExist")

\* C11 witness: a call typed two blocks deep, whose callee's body was checked
C11_Witness ==
    /\ pc = "inferred"
    /\ res.err.kind = "None"
    /\ \E c \in res.log.sites, b \in res.log.bodies :
          b.param = c.param /\ Len(c.site) = 3 /\ c.after = Head(c.site)

\* the statements hold a return statement, at any depth
RECURSIVE HasReturn(_)
HasReturn(stmts) ==
    \E i \in 1..Len(stmts) :
        \/ stmts[i].stmt = "ReturnStmt"
        \/ stmts[i].stmt = "IfStmt"
              /\ (HasReturn(stmts[i].true_test) \/ HasReturn(stmts[i].false_test))
        \/ stmts[i].stmt \in {"WhileStmt", "RepeatStmt"} /\ HasReturn(stmts[i].loop_block)
        \/ stmts[i].stmt = "CaseStmt"
              /\ \/ HasReturn(stmts[i].unmatched)
                 \/ \E k \in 1..Len(stmts[i].matches) : HasReturn(stmts[i].matches[k].block)

\* C13: in every body check of the inferred statement, a return statement
\* met while no return type is fixed fixes it to its own Static Type, a
\* return statement met later whose Static Type is not equal to the fixed
\* one is rejected with a language error, and a body without a return
\* statement gets the return type Nil.
C13_FirstReturnFixesType ==
    pc = "inferred" =>
        /\ \A e \in res.log.returns :
              /\ ~e.type_is_set => (~e.rejected /\ e.left_set /\ e.left = e.result)
              /\ (e.type_is_set /\ ~TypeEq(e.result, e.return_type))
                    => (e.rejected /\ res.err.kind = "LogicError")
        /\ \A b \in res.log.bodies :
              ~HasReturn(res.before.functions[b.name].body) => b.return_type = Prim(Nil)

-----------------------------------------------------------------------------
(* Harness for mangled(): inputs drawn from bounded sets. *)

MaxParams == 2      \* parameter types per signature
MaxMembers == 1     \* member types per Object descriptor

\* "id", "A.c3" (method c3 of class A), "A" followed by the byte 0xC3, "a'"
MangleNames == { <<105, 100>>, <<65, 46, 99, 51>>, <<65, 195>>, <<97, 39>> }

\* class names "A" and "A_"
MangleClasses == { <<65>>, <<65, 95>> }

SeqsUpTo(S, n) == UNION { [1..k -> S] : k \in 0..n }

MangleLeafTypes ==
    { Prim(Integer), Prim(Float), Prim(OrConstant(Integer)) }
        \cup { Obj(c, <<>>) : c \in MangleClasses }

MangleTypesSet ==
    MangleLeafTypes
        \cup { Obj(c, ts) : c \in MangleClasses, ts \in SeqsUpTo(MangleLeafTypes, MaxMembers) }

MangleInputs ==
    { [name |-> n, types |-> ts] : n \in MangleNames, ts \in SeqsUpTo(MangleTypesSet, MaxParams) }

\* Environment::Environment() and Cache's default constructor
EnvInit ==
    /\ frames = <<[enclosing |-> 0, vars |-> EmptyMap]>>
    /\ current_define_scope = 1
    /\ scopes = <<EmptyMap>>
    /\ this_ptrs = <<>>
    /\ functions = EmptyMap
    /\ classes = EmptyMap
    /\ instantiations = <<>>
    /\ return_depth = EmptyMap
    /\ ast = <<>>
    /\ module = <<>>
    /\ error = NoError
    /\ hist = <<>>

envVars == <<frames, current_define_scope, scopes, this_ptrs, functions, classes,
             instantiations, return_depth, ast, module, error, hist>>

InitMangle ==
    /\ EnvInit
    /\ pc = "input"
    /\ arg = [name |-> <<>>, types |-> <<>>]
    /\ res = <<>>

\* one call of mangled() on any input of the bounded universe
MangleCall ==
    /\ pc \in {"input", "mangled"}
    /\ \E i \in MangleInputs :
          /\ arg' = i
          /\ res' = mangled(i.name, i.types)
    /\ pc' = "mangled"
    /\ UNCHANGED envVars

SpecMangle == InitMangle /\ [][MangleCall]_vars

\* the two signatures are equal: same name, element-wise equal types
\* (operator== ignores the Constant flag)
SameSignature(a, b) ==
    /\ a.name = b.name
    /\ Len(a.types) = Len(b.types)
    /\ \A i \in 1..Len(a.types) : TypeEq(a.types[i], b.types[i])

\* C3: mangled is injective up to the Constant flag: two consecutive calls
\* that return the same string were given the same name and element-wise
\* equal parameter type lists.
C3_MangledInjective ==
    [][(pc = "mangled" /\ res' = res) => SameSignature(arg, arg')]_vars

\* C14: every return statement that is not the last statement of its
\* statement list was rejected, and a statement entered at the prompt that
\* holds a return statement (which is then outside any function body) was
\* rejected with a language error.
C14_ReturnOnlyAtEnd ==
    pc = "inferred" =>
        /\ \A m \in res.log.misplaced : m.rejected
        /\ HasReturn(<<arg>>) => res.err.kind = "LogicError"

\* the call a statement of ArityUnits makes: template name and arguments
CallOf(unit) ==
    LET call == IF unit.stmt = "PrintStmt" THEN unit.expression ELSE unit
    IN  [method |-> "method" \in DOMAIN call,
         name |-> IF "method" \in DOMAIN call THEN Name_P \o <<46>> \o call.method
                  ELSE call.name,
         args |-> call.args]

\* the statement calls a registered template (on the object p, for a
\* method) with a number of arguments that is not its number of parameters
WrongArgs ==
    /\ arg \in ArityUnits
    /\ CallOf(arg).name \in DOMAIN res.before.functions
    /\ CallOf(arg).method => Name_p \in DOMAIN res.before.frames[GlobalDefineScope].vars
    /\ Len(CallOf(arg).args) # Len(res.before.functions[CallOf(arg).name].parameters)

\* C15: a call with fewer or more arguments than the template has
\* parameters is rejected with the language error WrongArgs, no turn of the
\* parameter loop binds a parameter beyond the last argument, and the
\* instantiation table is what it was.
C15_WrongArgsRejected ==
    (pc = "inferred" /\ WrongArgs) =>
        /\ res.err = LogicError("WrongArgs")
        /\ \A b \in res.log.binds : b.parameter <= b.arguments
        /\ instantiations = res.before.instantiations

\* the statement is a call statement of a function that is not registered
UnregisteredCall ==
    arg.stmt = "FunctionCall" /\ arg.name \notin DOMAIN res.before.functions

\* the statement is a method call statement on a global variable
MethodOnGlobal ==
    /\ arg.stmt = "MethodCall"
    /\ arg.member_list = <<>>
    /\ arg.name \in DOMAIN res.before.frames[GlobalDefineScope].vars

ReceiverType == res.before.frames[GlobalDefineScope].vars[arg.name]

\* ... whose class has no method of that name
UnknownMethod ==
    /\ MethodOnGlobal
    /\ IsObj(ReceiverType)
    /\ arg.method \notin Range(res.before.classes[ReceiverType.class_name].methods)

\* ... that is not an object
NotAnObject == MethodOnGlobal /\ IsPrim(ReceiverType)

\* C16: type inference of a call statement of an unregistered function, of
\* a method call that names a method the receiver's class does not have,
\* and of a method call on a variable that is not an object, fails with a
\* language error.
C16_UnknownCalleeIsLanguageError ==
    (pc = "inferred" /\ (UnregisteredCall \/ UnknownMethod \/ NotAnObject))
        => res.err.kind = "LogicError"

-----------------------------------------------------------------------------
(* The template tables of the Cache: any sequence of addFunctionTemplate    *)
(* and addClassTemplate calls (codeGen(Function) and codeGen(Class) make    *)
(* them for the statements `fn` and `class`), over two names and two        *)
(* templates of each kind.  res.first is the template first registered     *)
(* under each name.                                                         *)

CacheNames == {Name_f, Name_A}
FunctionTemplates ==
    {[parameters |-> <<>>, body |-> <<ReturnStmt(One, 6)>>],
     [parameters |-> <<Name_n>>, body |-> <<ReturnStmt(VariableNode(Name_n), 7)>>]}
ClassTemplates ==
    {[variables |-> <<>>, methods |-> <<>>], [variables |-> <<Name_m>>, methods |-> <<>>]}

InitTemplates ==
    /\ EnvInit
    /\ pc = "cache"
    /\ arg = <<>>
    /\ res = [first |-> EmptyMap]

\* the template a name resolves to: getCacheType, then getFunction or getClass
Registered(st, name) ==
    IF getCacheType(st, name) = "CacheFunction"
    THEN [type |-> "CacheFunction", template |-> st.functions[name]]
    ELSE IF getCacheType(st, name) = "CacheClass"
    THEN [type |-> "CacheClass", template |-> st.classes[name]]
    ELSE [type |-> "CacheNone", template |-> <<>>]

\* what a registration leaves: the tables, the exception, and the ghost
ApplyTemplate(st, name, type, template) ==
    /\ functions' = st.functions
    /\ classes' = st.classes
    /\ error' = st.err
    /\ arg' = [name |-> name, type |-> type, template |-> template,
               before |-> Registered(Walker(Sess, EmptyLog), name)]
    /\ res' = IF name \in DOMAIN res.first \/ Failed(st) THEN res
              ELSE [res EXCEPT !.first = (name :> [type |-> type, template |-> template]) @@ @]
    /\ UNCHANGED <<frames, current_define_scope, scopes, this_ptrs, instantiations,
                   return_depth, pc, ast, module, hist>>

AddFunctionTemplate ==
    \E name \in CacheNames, t \in FunctionTemplates :
        ApplyTemplate(addFunctionTemplate(Walker(Sess, EmptyLog), name, t.parameters, t.body),
                      name, "CacheFunction", t)

AddClassTemplate ==
    \E name \in CacheNames, t \in ClassTemplates :
        ApplyTemplate(addClassTemplate(Walker(Sess, EmptyLog), name, t.variables, t.methods),
                      name, "CacheClass", t)

SpecTemplates == InitTemplates /\ [][AddFunctionTemplate \/ AddClassTemplate]_vars

\* C12: a registration under a name that is registered fails with a
\* language error, and every name resolves to the template that was
\* registered first under it.
C12_FirstTemplateKept ==
    /\ (arg # <<>> /\ arg.before.type # "CacheNone") => error.kind = "LogicError"
    /\ \A name \in DOMAIN res.first :
          Registered(Walker(Sess, EmptyLog), name) = res.first[name]

\* C18: an init statement in a nested block, for a name that an enclosing
\* frame binds and the block's own frame does not, is accepted by type
\* inference and binds the name in the block's frame.
C18_ShadowingLetAccepted ==
    /\ pc = "inferred"
    /\ \/ arg = LetXInInner
       \/ arg = LetVInBlock /\ isDefined(res.before.frames, res.before.cur, Name_v)
    => /\ res.err = NoError
       /\ \E i \in res.log.inits :
             /\ i.pass = "type" /\ ~i.global
             /\ i.name = (IF arg = LetVInBlock THEN Name_v ELSE Name_x)

-----------------------------------------------------------------------------
(* The Type Scope chain on its own: any sequence of beginDefineScope,       *)
(* endDefineScope, setType and getType calls on an Environment, over two    *)
(* names and two types, at most MaxScopeDepth frames deep.  endDefineScope  *)
(* is called on a nested frame only, as the walkers do.                     *)

MaxScopeDepth == 2      \* frames below the global one

ScopeNames == {Name_v, Name_x}
ScopeTypes == {Prim(Integer), Prim(String)}

InitDefineScope ==
    /\ EnvInit
    /\ pc = "scope"
    /\ arg = [op |-> "none"]
    /\ res = <<>>

\* what a call leaves in the Environment
ApplyDefineScope(st, call, result) ==
    /\ frames' = Store(Sess, st).frames
    /\ current_define_scope' = Store(Sess, st).cur
    /\ error' = st.err
    /\ arg' = call @@ [frames |-> frames, cur |-> current_define_scope]
    /\ res' = result
    /\ UNCHANGED <<scopes, this_ptrs, functions, classes, instantiations, return_depth,
                   pc, ast, module, hist>>

BeginDefineScope ==
    /\ getDepth(frames, current_define_scope) < MaxScopeDepth
    /\ \E parent \in {0, GlobalDefineScope} :
          ApplyDefineScope(beginDefineScope(Walker(Sess, EmptyLog), parent),
                           [op |-> "beginDefineScope"], <<>>)

EndDefineScope ==
    /\ frames[current_define_scope].enclosing # 0
    /\ ApplyDefineScope(endDefineScope(Walker(Sess, EmptyLog)), [op |-> "endDefineScope"], <<>>)

SetType ==
    \E name \in ScopeNames, type \in ScopeTypes :
        ApplyDefineScope(setType(Walker(Sess, EmptyLog), name, type),
                         [op |-> "setType", name |-> name, type |-> type], <<>>)

GetType ==
    \E name \in ScopeNames :
        ApplyDefineScope([Walker(Sess, EmptyLog) EXCEPT
                              !.err = tryGetType(frames, current_define_scope, name).err],
                         [op |-> "getType", name |-> name],
                         tryGetType(frames, current_define_scope, name).type)

SpecDefineScope ==
    InitDefineScope /\ [][BeginDefineScope \/ EndDefineScope \/ SetType \/ GetType]_vars

\* the positions, in a chain, of the frames that bind name
Binders(fr, chain, name) == {k \in 1..Len(chain) : name \in DOMAIN fr[chain[k]].vars}

\* C17: setType fails and changes nothing exactly when the current frame
\* binds the name, whatever the enclosing frames bind, and otherwise adds
\* the binding to the current frame and changes no other frame; getType
\* returns the binding of the innermost frame that binds the name and fails
\* when no frame does; getDepth is the number of enclosing frames.
C17_TypeScopeChain ==
    /\ arg.op = "setType" =>
          IF arg.name \in DOMAIN arg.frames[arg.cur].vars
          THEN error.kind # "None" /\ frames = arg.frames
               /\ current_define_scope = arg.cur
          ELSE /\ error = NoError
               /\ current_define_scope = arg.cur
               /\ frames = [arg.frames EXCEPT
                                ![arg.cur].vars = (arg.name :> arg.type) @@ @]
    /\ arg.op = "getType" =>
          LET chain == ChainOf(frames, current_define_scope)
              binders == Binders(frames, chain, arg.name)
          IN  IF binders = {} THEN error.kind # "None"
              ELSE /\ error = NoError
                   /\ \E k \in binders :
                         /\ \A j \in binders : k <= j
                         /\ res = frames[chain[k]].vars[arg.name]
    /\ getDepth(frames, current_define_scope)
          = Len(ChainOf(frames, current_define_scope)) - 1
    /\ current_define_scope = GlobalDefineScope
          => getDepth(frames, current_define_scope) = 0

\* C17 witness: setType added a binding to a nested frame whose enclosing
\* frame binds the same name, with another type
C17_Witness ==
    /\ arg.op = "setType"
    /\ error = NoError
    /\ getDepth(frames, current_define_scope) = 2
    /\ arg.name \in DOMAIN frames[frames[current_define_scope].enclosing].vars
    /\ frames[frames[current_define_scope].enclosing].vars[arg.name]
          # frames[current_define_scope].vars[arg.name]

-----------------------------------------------------------------------------
(* The Value Scope chain on its own: any sequence of beginScope, endScope   *)
(* and setVariable calls (defineValue when new_variable is set, setValue    *)
(* otherwise) on an Environment, over two names and three values, at most   *)
(* MaxValueDepth scopes deep.  endScope is called on a nested scope only,   *)
(* as the generated code does.                                              *)

MaxValueDepth == 1      \* scopes above the root one

ScopeValues ==
    {[type |-> Integer, value |-> 1], [type |-> Integer, value |-> 2],
     [type |-> String, value |-> 1]}

InitScope ==
    /\ EnvInit
    /\ pc = "value"
    /\ arg = [op |-> "none"]
    /\ res = <<>>

\* the runtime state of a call made on the Environment as it stands
Runtime == NewRuntime(scopes, this_ptrs, "fault")

\* what a call leaves in the Environment
ApplyScope(rt, call) ==
    /\ scopes' = rt.scopes
    /\ error' = rt.err
    /\ arg' = call @@ [scopes |-> scopes]
    /\ UNCHANGED <<frames, current_define_scope, this_ptrs, functions, classes,
                   instantiations, return_depth, pc, ast, module, hist, res>>

BeginScope ==
    /\ Len(scopes) <= MaxValueDepth
    /\ ApplyScope(beginScope(Runtime), [op |-> "beginScope"])

EndScope ==
    /\ Len(scopes) > 1
    /\ ApplyScope(endScope(Runtime), [op |-> "endScope"])

DefineValue ==
    \E name \in ScopeNames, value \in ScopeValues :
        ApplyScope(setVariable(Runtime, name, value, TRUE),
                   [op |-> "defineValue", name |-> name, value |-> value])

SetValue ==
    \E name \in ScopeNames, value \in ScopeValues :
        ApplyScope(setVariable(Runtime, name, value, FALSE),
                   [op |-> "setValue", name |-> name, value |-> value])

SpecScope == InitScope /\ [][BeginScope \/ EndScope \/ DefineValue \/ SetValue]_vars

\* the scopes of a chain that bind name
ValueBinders(chain, name) == {k \in 1..Len(chain) : name \in DOMAIN chain[k]}

\* C19: setValue replaces the innermost binding of the name when its tag is
\* the new value's tag, and otherwise (no scope binds the name, or the
\* innermost binding has another tag) fails with every scope unchanged; in
\* both cases every scope binds the names it bound, with the tags they had;
\* defineValue on a name the current scope binds fails with every scope
\* unchanged.
C19_SetValueKeepsTag ==
    /\ arg.op = "setValue" =>
          LET binders == ValueBinders(arg.scopes, arg.name)
          IN  /\ IF \E k \in binders :
                        /\ \A j \in binders : j <= k
                        /\ arg.scopes[k][arg.name].type = arg.value.type
                 THEN /\ error = NoError
                      /\ \E k \in binders :
                            /\ \A j \in binders : j <= k
                            /\ scopes = [arg.scopes EXCEPT ![k][arg.name] = arg.value]
                 ELSE error.kind # "None" /\ scopes = arg.scopes
              /\ Len(scopes) = Len(arg.scopes)
              /\ \A k \in 1..Len(scopes) :
                    /\ DOMAIN scopes[k] = DOMAIN arg.scopes[k]
                    /\ \A n \in DOMAIN scopes[k] : scopes[k][n].type = arg.scopes[k][n].type
    /\ arg.op = "defineValue" /\ arg.name \in DOMAIN arg.scopes[Len(arg.scopes)] =>
          error.kind # "None" /\ scopes = arg.scopes

\* C19 witness: setValue was refused for a value whose tag differs from the
\* tag of the innermost binding, while an outer scope binds the name with
\* the value's tag
C19_Witness ==
    /\ arg.op = "setValue"
    /\ error.kind # "None"
    /\ Len(scopes) = 2
    /\ arg.name \in DOMAIN scopes[2]
    /\ arg.name \in DOMAIN scopes[1]
    /\ scopes[2][arg.name].type # arg.value.type
    /\ scopes[1][arg.name].type = arg.value.type

-----------------------------------------------------------------------------
(* The receiver stack: setThisPtr, unsetThisPtr and getThisPtr called on an *)
(* Environment in which                                                     *)
(*     class P(m) fn get() ... fn add(n) ... endclass ; let p <- P(1)       *)
(*     class Q(m) fn one() return 1 endfn                                   *)
(*                fn both() p.get(); print this.one();                      *)
(*                          return p.add(this.one()) endfn endclass         *)
(*     let q <- Q(1)                                                        *)
(* were entered, and statements with method calls run through the whole     *)
(* loop body of main.cpp.  unsetThisPtr follows a setThisPtr, as in the     *)
(* emitted code.  hist is the sequence of pushes and pops made so far.      *)

MaxReceiverOps == 4     \* setThisPtr and unsetThisPtr calls in one history

Name_q == <<113>>
Name_Q == <<81>>
Name_one == <<111, 110, 101>>
Name_both == <<98, 111, 116, 104>>

ThisOne == MethodNode(THIS_VAR, <<>>, Name_one, <<>>)

ClassQ ==
    Class(Name_Q, <<Name_m>>,
          <<Function(Name_one, <<>>, <<ReturnStmt(One, 24)>>),
            Function(Name_both, <<>>,
                     <<MethodCall(Name_p, <<>>, Name_get, <<>>),
                       PrintStmt(ThisOne),
                       ReturnStmt(MethodNode(Name_p, <<>>, Name_add, <<ThisOne>>), 25)>>)>>)
LetQ == InitStmt(Name_q, "Assign", CallNode(Name_Q, <<One>>))

ReceiverPrep == <<ClassP, LetP, ClassQ, LetQ>>

ReceiverSessions ==
    {RunUnits(Session0, SubSeq(ReceiverPrep, 1, k)) : k \in 0..Len(ReceiverPrep)}

ReceiverPointers == {Pointer(1, Name_p, <<>>), Pointer(1, Name_q, <<>>)}

\* method calls as statements and as values, nested in a method body and
\* in an argument, and a call of a method that does not exist
MethodUnits ==
    {MethodCall(Name_p, <<>>, Name_get, <<>>),
     PrintStmt(MethodNode(Name_p, <<>>, Name_add, <<One>>)),
     MethodCall(Name_q, <<>>, Name_both, <<>>),
     PrintStmt(MethodNode(Name_q, <<>>, Name_both, <<>>)),
     PrintStmt(MethodNode(Name_p, <<>>, Name_add,
                          <<MethodNode(Name_q, <<>>, Name_one, <<>>)>>)),
     MethodCall(Name_p, <<>>, Name_h, <<>>)}

InitReceiver ==
    /\ \E S \in ReceiverSessions :
          /\ frames = S.frames
          /\ current_define_scope = S.cur
          /\ scopes = S.scopes
          /\ this_ptrs = S.this_ptrs
          /\ functions = S.functions
          /\ classes = S.classes
          /\ instantiations = S.instantiations
          /\ return_depth = S.return_depth
    /\ pc = "receiver"
    /\ ast = <<>>
    /\ module = <<>>
    /\ error = NoError
    /\ hist = <<>>
    /\ arg = [op |-> "none"]
    /\ res = <<>>

\* what a call on the receiver stack leaves in the Environment
ApplyReceiver(rt, ops, call, result) ==
    /\ this_ptrs' = rt.this_ptrs
    /\ error' = rt.err
    /\ hist' = hist \o ops
    /\ arg' = call
    /\ res' = result
    /\ UNCHANGED <<frames, current_define_scope, scopes, functions, classes,
                   instantiations, return_depth, pc, ast, module>>

SetThisPtr ==
    /\ Len(hist) < MaxReceiverOps
    /\ \E ptr \in ReceiverPointers :
          ApplyReceiver(setThisPtr(Runtime, ptr), <<[op |-> "push", ptr |-> ptr]>>,
                        [op |-> "setThisPtr"], <<>>)

UnsetThisPtr ==
    /\ Len(hist) < MaxReceiverOps
    /\ this_ptrs # <<>>
    /\ ApplyReceiver(unsetThisPtr(Runtime), <<[op |-> "pop"]>>, [op |-> "unsetThisPtr"], <<>>)

GetThisPtr ==
    ApplyReceiver(Runtime, <<>>, [op |-> "getThisPtr"], getThisPtr(this_ptrs))

\* one statement through main.cpp 67-79; the catch clause resets the
\* Environment, which clears the receiver stack
ApplyCall(unit, r) ==
    /\ SetSess(r.S)
    /\ error' = r.err
    /\ hist' = IF r.ok THEN hist ELSE <<>>
    /\ arg' = [op |-> "call", unit |-> unit, before |-> this_ptrs]
    /\ res' = [ok |-> r.ok, methods |-> r.methods]
    /\ UNCHANGED <<pc, ast, module>>

CallMethod == \E unit \in MethodUnits : ApplyCall(unit, Walk("RunUnit", <<Sess, unit>>))

SpecReceiver ==
    InitReceiver /\ [][SetThisPtr \/ UnsetThisPtr \/ GetThisPtr \/ CallMethod]_vars

\* the receiver of the last push of ops[1..i] that no later pop of it
\* matches, no receiver if there is none
RECURSIVE Unpopped(_, _, _)
Unpopped(ops, i, pops) ==
    IF i = 0 THEN NullPointer
    ELSE IF ops[i].op = "pop" THEN Unpopped(ops, i - 1, pops + 1)
    ELSE IF pops = 0 THEN ops[i].ptr
    ELSE Unpopped(ops, i - 1, pops - 1)

\* C20: after every sequence of setThisPtr and unsetThisPtr calls
\* getThisPtr returns the receiver of the last push that has not been
\* popped, and no receiver when every push has been popped; every emitted
\* method call that returned had pushed its one receiver on the stack it
\* found when its callee started and left the stack as it found it, so the
\* statement leaves the stack as it was.
C20_ReceiverStackLIFO ==
    /\ getThisPtr(this_ptrs) = Unpopped(hist, Len(hist), 0)
    /\ arg.op = "getThisPtr" => res = Unpopped(hist, Len(hist), 0)
    /\ arg.op = "call" /\ res.ok =>
          /\ this_ptrs = arg.before
          /\ \A m \in res.methods :
                /\ m.entered = Append(m.before, m.receiver)
                /\ m.after = m.before

\* C20 witness: a statement ran on a stack of two receivers, its method
\* calls returned, one of them made from inside another with another
\* receiver, and the receiver current before the statement is current
C20_Witness ==
    /\ arg.op = "call"
    /\ res.ok
    /\ Len(arg.before) = 2
    /\ arg.before[1] # arg.before[2]
    /\ getThisPtr(this_ptrs) = arg.before[2]
    /\ \E m \in res.methods :
          /\ Len(m.before) = 3
          /\ m.receiver # getThisPtr(m.before)

-----------------------------------------------------------------------------
(* Data members: the classes                                                *)
(*     class K(a, b, c) endclass        class L(c, a) endclass              *)
(* are declared and instances of them created, in any order, by statements  *)
(* run through the whole loop body of main.cpp; data member reads are       *)
(* type-inferred, code-generated and run.                                   *)

Name_K == <<75>>
Name_L == <<76>>
Name_o == <<111>>
Name_u == <<117>>
Name_w == <<119>>
Name_y == <<121>>

ClassK == Class(Name_K, <<Name_a, Name_b, Name_c>>, <<>>)
ClassL == Class(Name_L, <<Name_c, Name_a>>, <<>>)

KValues == <<ValueNode(Integer, 1), ValueNode(String, 2), ValueNode(Float, 3)>>

\* let o <- K(1, "s", 3.0)
LetO == InitStmt(Name_o, "Assign", CallNode(Name_K, KValues))
\* let u <- L(o, 4)
LetU == InitStmt(Name_u, "Assign",
                 CallNode(Name_L, <<VariableNode(Name_o), ValueNode(Integer, 4)>>))
\* let w <- K(1)
LetW == InitStmt(Name_w, "Assign", CallNode(Name_K, <<One>>))
\* let y <- L(1, 1, "s")
LetY == InitStmt(Name_y, "Assign", CallNode(Name_L, <<One, One, ValueNode(String, 2)>>))

DeclareUnits == {ClassK, ClassL}
ConstructUnits == {LetO, LetU, LetW, LetY}

MemberNodes ==
    {DataNode(Name_o, <<n>>) : n \in {Name_a, Name_b, Name_c, Name_m}}
        \cup {DataNode(Name_u, <<Name_c, n>>) : n \in {Name_a, Name_b, Name_m}}
        \cup {DataNode(Name_u, <<Name_a>>), DataNode(Name_u, <<Name_b>>)}
        \cup {DataNode(Name_w, <<n>>) : n \in {Name_a, Name_c}}
        \cup {DataNode(Name_y, <<n>>) : n \in {Name_a, Name_c}}

InitMembers ==
    /\ EnvInit
    /\ pc = "members"
    /\ arg = [op |-> "none"]
    /\ res = <<>>

\* what one statement leaves in the session
ApplyMembers(op, unit, r) ==
    /\ SetSess(r.S)
    /\ arg' = [op |-> op, unit |-> unit]
    /\ res' = r.res
    /\ UNCHANGED <<pc, ast, module, error, hist>>

\* what RunUnit reports of a statement
UnitResult(r) == [S |-> r.S, res |-> [stage |-> r.stage, err |-> r.err]]

DeclareClass ==
    \E unit \in DeclareUnits :
        ApplyMembers("declare", unit, UnitResult(Walk("RunUnit", <<Sess, unit>>)))

Construct ==
    \E unit \in ConstructUnits :
        ApplyMembers("construct", unit, UnitResult(Walk("RunUnit", <<Sess, unit>>)))

ReadMember ==
    \E node \in MemberNodes : ApplyMembers("read", node, Walk("MemberStep", <<Sess, node>>))

SpecMembers == InitMembers /\ [][DeclareClass \/ Construct \/ ReadMember]_vars

\* the positions, counted from 0, of member in the declared member list
Positions(class_name, member) ==
    {k \in 0..(Len(classes[class_name].variables) - 1) :
        classes[class_name].variables[k + 1] = member}

\* the indices of an emitted getObjectData call as the source counts them
ZeroBased(indices) == [i \in 1..Len(indices) |-> indices[i] - 1]

\* C21: in every member read, each getMemberIndex call of type inference
\* and of code generation returns the position, counted from 0, of the
\* member in the declared member list of the class, whatever the order of
\* the class declarations and of the constructions before it; .c of an
\* instance of K(a, b, c) is emitted as index 2; a name that is not a
\* member stops type inference with a language error.
C21_MemberIndex ==
    arg.op = "read" =>
        /\ \A e \in res.log.members :
              IF Positions(e.class_name, e.member) = {}
              THEN ~e.found /\ res.stage = "type" /\ res.err = LogicError("DataNotExist")
              ELSE /\ e.found
                   /\ e.index \in Positions(e.class_name, e.member)
                   /\ \A k \in Positions(e.class_name, e.member) : e.index <= k
        /\ \A e, f \in res.log.members :
              e.class_name = f.class_name /\ e.member = f.member => e.index = f.index
        /\ res.stage = "done" =>
              {e.pass : e \in res.log.members} = {"type", "code"}
        /\ arg.unit = DataNode(Name_o, <<Name_c>>) /\ res.stage = "done" =>
              ZeroBased(res.indices) = <<2>>

\* C21 witness: with L declared before K, u.c.b was read after o and u
\* were constructed, and yielded the second value o was constructed with
C21_Witness ==
    /\ arg.op = "read"
    /\ arg.unit = DataNode(Name_u, <<Name_c, Name_b>>)
    /\ res.stage = "done"
    /\ ZeroBased(res.indices) = <<0, 1>>
    /\ res.type = Prim(String)
    /\ res.value = [type |-> String, value |-> 2]
    /\ Name_w \in DOMAIN scopes[1]

\* the Object descriptors bound in the global Type Scope
GlobalObjects ==
    {frames[GlobalDefineScope].vars[n] :
        n \in {m \in DOMAIN frames[GlobalDefineScope].vars :
                  IsObj(frames[GlobalDefineScope].vars[m])}}

\* C29: every Object descriptor type inference binds has as many member
\* types as its class has declared members; constructing K or L with
\* fewer or more arguments than declared members is rejected by type
\* inference with a language error; no member read runs past the member
\* types of a descriptor.
C29_DescriptorHasDeclaredArity ==
    /\ \A object \in GlobalObjects :
          object.class_name \in DOMAIN classes
              => Len(object.object_types) = Len(classes[object.class_name].variables)
    /\ arg.op = "construct" /\ arg.unit \in {LetW, LetY}
          /\ arg.unit.value.name \in DOMAIN classes
          => res.stage = "type" /\ res.err.kind = "LogicError"
    /\ arg.op = "read" => res.err # StdException("out_of_range")

-----------------------------------------------------------------------------
(* Control flow: from a session in which                                    *)
(*     let g <- 0                                                           *)
(*     fn r1() return 1 endfn                                               *)
(*     fn r2(n) if n return 1 else return 2 endif endfn                     *)
(*     fn r3(n) if n if n return 1 endif endif; return 2 endfn              *)
(*     fn r4() while g < 2 g <- g + 1; if g = 2 return g endif endwhile endfn *)
(*     fn r5(n) case n when 1 return 1 else return 2 endcase endfn          *)
(*     fn r6() while g < 1 g <- 1; return 1 endwhile endfn                  *)
(*     fn r7() repeat g <- 1; return 1 until g endfn                        *)
(*     fn pr() g <- g endfn                                                 *)
(*     class T(m) fn bump(n) if n g <- g endif endfn endclass               *)
(*     let t <- T(1)                                                        *)
(* have been entered, statements that call these functions and statements   *)
(* of each kind that opens scopes are run through the whole loop body of    *)
(* main.cpp, in any order.                                                  *)

Name_r1 == <<114, 49>>
Name_r2 == <<114, 50>>
Name_r3 == <<114, 51>>
Name_r4 == <<114, 52>>
Name_r5 == <<114, 53>>
Name_r6 == <<114, 54>>
Name_r7 == <<114, 55>>

Zero == ValueNode(Integer, 0)
Two == ValueNode(Integer, 2)
G == VariableNode(Name_g)
Binary(a, op, b) == ListNode("Left", <<a, OperatorNode(op), b>>)
Compare(a, op, b) == ListNode("Boolean", <<a, OperatorNode(op), b>>)

LetG == InitStmt(Name_g, "Assign", Zero)
FnR1 == Function(Name_r1, <<>>, <<ReturnStmt(One, 26)>>)
FnR2 == Function(Name_r2, <<Name_n>>,
                 <<IfStmt(VariableNode(Name_n), <<ReturnStmt(One, 27)>>,
                          <<ReturnStmt(Two, 28)>>)>>)
FnR3 == Function(Name_r3, <<Name_n>>,
                 <<IfStmt(VariableNode(Name_n),
                          <<IfStmt(VariableNode(Name_n), <<ReturnStmt(One, 29)>>, <<>>)>>,
                          <<>>),
                   ReturnStmt(Two, 30)>>)
FnR4 == Function(Name_r4, <<>>,
                 <<WhileStmt(Compare(G, "Less", Two),
                             <<AssignStmt(Name_g, Binary(G, "Plus", One)),
                               IfStmt(Compare(G, "Equal", Two),
                                      <<ReturnStmt(G, 31)>>, <<>>)>>)>>)
FnR5 == Function(Name_r5, <<Name_n>>,
                 <<CaseStmt(VariableNode(Name_n),
                            <<WhenStmt(One, <<ReturnStmt(One, 32)>>)>>,
                            <<ReturnStmt(Two, 33)>>)>>)
FnR6 == Function(Name_r6, <<>>,
                 <<WhileStmt(Compare(G, "Less", One),
                             <<AssignStmt(Name_g, One), ReturnStmt(One, 34)>>)>>)
FnR7 == Function(Name_r7, <<>>,
                 <<RepeatStmt(<<AssignStmt(Name_g, One), ReturnStmt(One, 35)>>, G)>>)

Name_pr == <<112, 114>>
Name_T == <<84>>
Name_t == <<116>>
Name_bump == <<98, 117, 109, 112>>

FnPr == Function(Name_pr, <<>>, <<AssignStmt(Name_g, G)>>)
ClassT ==
    Class(Name_T, <<Name_m>>,
          <<Function(Name_bump, <<Name_n>>,
                     <<IfStmt(VariableNode(Name_n), <<AssignStmt(Name_g, G)>>, <<>>)>>)>>)
LetT == InitStmt(Name_t, "Assign", CallNode(Name_T, <<One>>))

ControlPrep == <<LetG, FnR1, FnR2, FnR3, FnR4, FnR5, FnR6, FnR7, FnPr, ClassT, LetT>>
ControlSessions ==
    {RunUnits(Session0, SubSeq(ControlPrep, 1, k)) : k \in 0..Len(ControlPrep)}

ReturnCalls ==
    {[name |-> n, args |-> <<>>] : n \in {Name_r1, Name_r4, Name_r6, Name_r7}}
        \cup {[name |-> n, args |-> <<a>>] : n \in {Name_r2, Name_r3, Name_r5},
                                              a \in {Zero, One}}

\* r(...) as a statement and print r(...)
CallUnits ==
    {FunctionCall(c.name, c.args) : c \in ReturnCalls}
        \cup {PrintStmt(CallNode(c.name, c.args)) : c \in ReturnCalls}

\* g <- 0, g <- 1
RewindUnits == {AssignStmt(Name_g, Zero), AssignStmt(Name_g, One)}

Step == AssignStmt(Name_g, Binary(G, "Plus", One))
LetX == InitStmt(Name_x, "Assign", One)

\* if g < 1 let x <- 1; print x else g <- 0 endif
IfBlock ==
    IfStmt(Compare(G, "Less", One), <<LetX, PrintStmt(VariableNode(Name_x))>>,
           <<AssignStmt(Name_g, Zero)>>)
\* while g < 2 g <- g + 1 endwhile
WhileBlock == WhileStmt(Compare(G, "Less", Two), <<Step>>)
\* repeat g <- g + 1 until g > 1
RepeatBlock == RepeatStmt(<<Step>>, Compare(G, "Greater", One))
\* case g when 0 g <- 1 when 1 pr() else t.bump(1) endcase
CaseBlock ==
    CaseStmt(G, <<WhenStmt(Zero, <<AssignStmt(Name_g, One)>>),
                  WhenStmt(One, <<FunctionCall(Name_pr, <<>>)>>)>>,
             <<MethodCall(Name_t, <<>>, Name_bump, <<One>>)>>)
\* while g < 2 if g < 1 let x <- 1; g <- x else case g when 1 g <- 2 endcase endif endwhile
NestedBlock ==
    WhileStmt(Compare(G, "Less", Two),
              <<IfStmt(Compare(G, "Less", One),
                       <<LetX, AssignStmt(Name_g, VariableNode(Name_x))>>,
                       <<CaseStmt(G, <<WhenStmt(One, <<AssignStmt(Name_g, Two)>>)>>,
                                  <<>>)>>)>>)
\* while g < 2 let x <- 1; g <- g + 1 endwhile
WhileLet == WhileStmt(Compare(G, "Less", Two), <<LetX, Step>>)
\* repeat let x <- 1; g <- g + 1 until g > 1
RepeatLet == RepeatStmt(<<LetX, Step>>, Compare(G, "Greater", One))

BlockUnits ==
    {IfBlock, WhileBlock, RepeatBlock, CaseBlock, NestedBlock, WhileLet, RepeatLet,
     FunctionCall(Name_pr, <<>>),
     MethodCall(Name_t, <<>>, Name_bump, <<One>>),
     MethodCall(Name_t, <<>>, Name_bump, <<Zero>>)}

MaxControlUnits == 2    \* statements entered after the session was set up

InitControl ==
    /\ \E S \in ControlSessions :
          /\ frames = S.frames
          /\ current_define_scope = S.cur
          /\ scopes = S.scopes
          /\ this_ptrs = S.this_ptrs
          /\ functions = S.functions
          /\ classes = S.classes
          /\ instantiations = S.instantiations
          /\ return_depth = S.return_depth
    /\ pc = "control"
    /\ ast = <<>>
    /\ module = <<>>
    /\ error = NoError
    /\ hist = 0
    /\ arg = [op |-> "none"]
    /\ res = <<>>

\* what one statement leaves in the session, and what it met
ApplyControl(op, unit, r) ==
    /\ SetSess(r.S)
    /\ arg' = [op |-> op, unit |-> unit,
               depth |-> getDepth(frames, current_define_scope),
               scopes |-> scopes]
    /\ res' = [ok |-> r.ok, stage |-> r.stage, err |-> r.err,
               returns |-> r.returns, exits |-> r.exits, left |-> r.left.scopes,
               stmts |-> r.log.stmts]
    /\ hist' = hist + 1
    /\ UNCHANGED <<pc, ast, module, error>>

\* the process has stopped: a run ended in a fault, or in an exception
\* with no Value Scope left for Environment::reset
Stopped ==
    /\ res # <<>>
    /\ ~res.ok
    /\ res.err.kind = "Crash" \/ res.left = <<>>

\* another statement can be entered
Prompt == ~Stopped /\ hist < MaxControlUnits

\* main.cpp 66-79 on a statement that calls a function
CallFunction ==
    /\ Prompt
    /\ \E unit \in CallUnits, midblock \in MidBlockOutcomes :
          ApplyControl("call", unit, Walk("RunUnitIn", <<Sess, unit, midblock>>))

\* main.cpp 66-79 on an assignment to g
Rewind ==
    /\ Prompt
    /\ \E unit \in RewindUnits :
          ApplyControl("rewind", unit, Walk("RunUnitIn", <<Sess, unit, "fault">>))

\* main.cpp 66-79 on a statement that opens scopes
EnterBlock ==
    /\ Prompt
    /\ \E unit \in BlockUnits :
          ApplyControl("block", unit, Walk("RunUnitIn", <<Sess, unit, "fault">>))

SpecControl == InitControl /\ [][CallFunction \/ Rewind \/ EnterBlock]_vars

C23_ScopesBalanced ==
    arg.op \in {"call", "block"} =>
        /\ \A e \in res.stmts : e.left = e.found /\ e.opened = e.begins
        /\ res.ok /\ res.returns = {} =>
              /\ Len(scopes) = Len(arg.scopes)
              /\ \A k \in 1..Len(arg.scopes) : DOMAIN arg.scopes[k] \subseteq DOMAIN scopes[k]
              /\ getDepth(frames, current_define_scope) = arg.depth
              /\ \A x \in res.exits : x.same_frame

\* C23 witness: with g = 2, the case statement ran to the end through its
\* unmatched block, which calls the method t.bump; its code generation
\* opened five Type Scopes (three blocks, two calls) and emitted five calls
\* to beginScope
C23_Witness ==
    /\ arg.op = "block"
    /\ arg.unit = CaseBlock
    /\ res.ok
    /\ res.returns = {}
    /\ res.exits # {}
    /\ Len(arg.scopes) = 1
    /\ arg.scopes[1][Name_g].value = 2
    /\ \E e \in res.stmts : e.stmt = "CaseStmt" /\ e.opened = 5 /\ e.begins = 5
    /\ \E e \in res.stmts : e.stmt = "MethodCall" /\ e.opened = 1

\* C27: a while or repeat loop with an init statement directly in its loop
\* body never stops with the error VarExists: the init defines its name in
\* a frame that is fresh for each iteration.
C27_LoopLetIterates ==
    arg.op = "block" /\ arg.unit \in {WhileLet, RepeatLet} =>
        ~(res.err.kind = "UnexpectedError" /\ res.err.what = "VarExists")

-----------------------------------------------------------------------------
(* Method calls whose arguments read the caller's receiver, run through the *)
(* whole loop body of main.cpp in an Environment in which                   *)
(*     let g <- 0                                                           *)
(*     class R(x) fn take(n) g <- n endfn                                   *)
(*                fn echo(n) return n endfn endclass ; let r <- R(2)        *)
(*     class S(x) fn send() r.take(this.x) endfn                            *)
(*                fn ask() return r.echo(this.x) endfn                      *)
(*                fn own() return this.x endfn endclass ; let s <- S(1)     *)
(* were entered.  hist counts the statements entered after that.            *)

Name_R == <<82>>
Name_S == <<83>>
Name_r == <<114>>
Name_s == <<115>>
Name_take == <<116, 97, 107, 101>>
Name_echo == <<101, 99, 104, 111>>
Name_send == <<115, 101, 110, 100>>
Name_ask == <<97, 115, 107>>
Name_own == <<111, 119, 110>>

ThisX == DataNode(THIS_VAR, <<Name_x>>)

ClassR ==
    Class(Name_R, <<Name_x>>,
          <<Function(Name_take, <<Name_n>>, <<AssignStmt(Name_g, VariableNode(Name_n))>>),
            Function(Name_echo, <<Name_n>>, <<ReturnStmt(VariableNode(Name_n), 36)>>)>>)
LetR == InitStmt(Name_r, "Assign", CallNode(Name_R, <<Two>>))
ClassS ==
    Class(Name_S, <<Name_x>>,
          <<Function(Name_send, <<>>, <<MethodCall(Name_r, <<>>, Name_take, <<ThisX>>)>>),
            Function(Name_ask, <<>>,
                     <<ReturnStmt(MethodNode(Name_r, <<>>, Name_echo, <<ThisX>>), 37)>>),
            Function(Name_own, <<>>, <<ReturnStmt(ThisX, 38)>>)>>)
LetS == InitStmt(Name_s, "Assign", CallNode(Name_S, <<One>>))

ArgumentPrep == <<LetG, ClassR, LetR, ClassS, LetS>>
ArgumentSessions ==
    {RunUnits(Session0, SubSeq(ArgumentPrep, 1, k)) : k \in 0..Len(ArgumentPrep)}

\* s.send()
SendUnit == MethodCall(Name_s, <<>>, Name_send, <<>>)
\* g <- s.ask()
AskUnit == AssignStmt(Name_g, MethodNode(Name_s, <<>>, Name_ask, <<>>))
\* g <- s.own()
OwnUnit == AssignStmt(Name_g, MethodNode(Name_s, <<>>, Name_own, <<>>))

ArgumentUnits ==
    {SendUnit, AskUnit, OwnUnit,
     AssignStmt(Name_g, Zero),
     MethodCall(Name_r, <<>>, Name_take, <<One>>),
     AssignStmt(Name_g, MethodNode(Name_r, <<>>, Name_echo, <<Zero>>)),
     DataAssignStmt(Name_s, <<Name_x>>, Zero),
     DataAssignStmt(Name_r, <<Name_x>>, One)}

MaxArgumentUnits == 3   \* statements entered after the session was set up

InitArguments ==
    /\ \E S \in ArgumentSessions :
          /\ frames = S.frames
          /\ current_define_scope = S.cur
          /\ scopes = S.scopes
          /\ this_ptrs = S.this_ptrs
          /\ functions = S.functions
          /\ classes = S.classes
          /\ instantiations = S.instantiations
          /\ return_depth = S.return_depth
    /\ pc = "arguments"
    /\ ast = <<>>
    /\ module = <<>>
    /\ error = NoError
    /\ hist = 0
    /\ arg = [op |-> "none"]
    /\ res = <<>>

\* what one statement leaves in the session, and what it met
ApplyArguments(unit, r) ==
    /\ SetSess(r.S)
    /\ arg' = [op |-> "call", unit |-> unit, scopes |-> scopes]
    /\ res' = [ok |-> r.ok, stage |-> r.stage, err |-> r.err, methods |-> r.methods]
    /\ hist' = hist + 1
    /\ UNCHANGED <<pc, ast, module, error>>

\* main.cpp 66-79 on a statement with a method call
CallWithArguments ==
    /\ hist < MaxArgumentUnits
    /\ \E unit \in ArgumentUnits : ApplyArguments(unit, Walk("RunUnit", <<Sess, unit>>))

SpecArguments == InitArguments /\ [][CallWithArguments]_vars

\* C28: every method call with arguments evaluated them on the receiver
\* stack it found, that is before its own receiver was pushed; s.send()
\* leaves in g, and s.ask() returns, the member x of s.
C28_ArgumentsSeeCallerReceiver ==
    arg.op = "call" =>
        /\ \A m \in res.methods : m.args > 0 => m.args_on = m.before
        /\ res.ok /\ arg.unit \in {SendUnit, AskUnit} =>
              scopes[1][Name_g].value = arg.scopes[1][Name_s].value[1].value

-----------------------------------------------------------------------------
(* Class definitions entered one after another through the whole loop body  *)
(* of main.cpp, some of them for a class name that is already registered.   *)
(* hist counts the definitions entered.                                     *)

MaxClassUnits == 2      \* class definitions entered in one session

MethodGet == Function(Name_get, <<>>, <<ReturnStmt(One, 39)>>)
MethodOne == Function(Name_one, <<>>, <<ReturnStmt(One, 40)>>)
MethodAdd == Function(Name_add, <<Name_n>>, <<ReturnStmt(VariableNode(Name_n), 41)>>)

MethodLists ==
    {<<>>, <<MethodGet>>, <<MethodOne>>, <<MethodGet, MethodOne>>,
     <<MethodOne, MethodGet>>, <<MethodAdd, MethodGet>>}

ClassUnits ==
    {Class(name, variables, methods) :
        name \in {Name_P, Name_Q}, variables \in {<<>>, <<Name_m>>},
        methods \in MethodLists}

InitClasses ==
    /\ frames = Session0.frames
    /\ current_define_scope = Session0.cur
    /\ scopes = Session0.scopes
    /\ this_ptrs = Session0.this_ptrs
    /\ functions = Session0.functions
    /\ classes = Session0.classes
    /\ instantiations = Session0.instantiations
    /\ return_depth = Session0.return_depth
    /\ pc = "classes"
    /\ ast = <<>>
    /\ module = <<>>
    /\ error = NoError
    /\ hist = 0
    /\ arg = [op |-> "none"]
    /\ res = <<>>

\* what one class definition leaves in the session, and what it met
ApplyClass(unit, r) ==
    /\ SetSess(r.S)
    /\ arg' = [op |-> "class", unit |-> unit, functions |-> functions,
               classes |-> classes, instantiations |-> instantiations]
    /\ res' = [ok |-> r.ok, stage |-> r.stage, err |-> r.err]
    /\ hist' = hist + 1
    /\ UNCHANGED <<pc, ast, module, error>>

\* main.cpp 66-79 on a class definition
DefineClass ==
    /\ hist < MaxClassUnits
    /\ \E unit \in ClassUnits : ApplyClass(unit, Walk("RunUnit", <<Sess, unit>>))

SpecClasses == InitClasses /\ [][DefineClass]_vars

\* C30: a class definition rejected with ClassExists leaves the function
\* templates, the class templates and the instantiations of the Cache as
\* they were.
C30_RejectedClassLeavesCache ==
    arg.op = "class" /\ ~res.ok /\ res.err.what = "ClassExists" =>
        /\ functions = arg.functions
        /\ classes = arg.classes
        /\ instantiations = arg.instantiations

-----------------------------------------------------------------------------
(* Statements that call function templates, run through the whole loop body *)
(* of main.cpp in an Environment in which                                   *)
(*     let g <- 0                                                           *)
(*     fn k1(n) let x <- n; return x endfn                                  *)
(*     fn k2(n) let n <- 1; return n endfn                                  *)
(*     fn k3(n) if n let x <- n endif; return n endfn                       *)
(*     fn k4(n) g <- n endfn                                                *)
(* were entered.  hist counts the statements entered after that.            *)

MaxBodyUnits == 2       \* statements entered after the session was set up

Name_k1 == <<107, 49>>
Name_k2 == <<107, 50>>
Name_k3 == <<107, 51>>
Name_k4 == <<107, 52>>
Name_z == <<122>>

N == VariableNode(Name_n)
Text == ValueNode(String, 1)

FnK1 == Function(Name_k1, <<Name_n>>,
                 <<InitStmt(Name_x, "Assign", N), ReturnStmt(VariableNode(Name_x), 42)>>)
FnK2 == Function(Name_k2, <<Name_n>>,
                 <<InitStmt(Name_n, "Assign", One), ReturnStmt(N, 43)>>)
FnK3 == Function(Name_k3, <<Name_n>>,
                 <<IfStmt(N, <<InitStmt(Name_x, "Assign", N)>>, <<>>), ReturnStmt(N, 44)>>)
FnK4 == Function(Name_k4, <<Name_n>>, <<AssignStmt(Name_g, N)>>)

BodyPrep == <<LetG, FnK1, FnK2, FnK3, FnK4>>
BodySessions ==
    {RunUnits(Session0, SubSeq(BodyPrep, 1, k)) : k \in 0..Len(BodyPrep)}

\* let z = true + true
LetZSum == InitStmt(Name_z, "Equal",
                    ListNode("Left", <<ValueNode(Boolean, 1), OperatorNode("Plus"),
                                       ValueNode(Boolean, 1)>>))

\* print k(a), let z <- k(1), k4(a), let z <- 1, print z, let z = true + true
BodyUnits ==
    {PrintStmt(CallNode(k, <<a>>)) : k \in {Name_k1, Name_k2, Name_k3}, a \in {One, Text}}
        \cup {InitStmt(Name_z, "Assign", CallNode(k, <<One>>)) :
                 k \in {Name_k1, Name_k2, Name_k3}}
        \cup {FunctionCall(Name_k4, <<a>>) : a \in {One, Text}}
        \cup {InitStmt(Name_z, "Assign", One), PrintStmt(VariableNode(Name_z)), LetZSum}

InitBodies ==
    /\ \E S \in BodySessions :
          /\ frames = S.frames
          /\ current_define_scope = S.cur
          /\ scopes = S.scopes
          /\ this_ptrs = S.this_ptrs
          /\ functions = S.functions
          /\ classes = S.classes
          /\ instantiations = S.instantiations
          /\ return_depth = S.return_depth
    /\ pc = "bodies"
    /\ ast = <<>>
    /\ module = <<>>
    /\ error = NoError
    /\ hist = 0
    /\ arg = [op |-> "none"]
    /\ res = <<>>

\* what one statement leaves in the session, and what it met
ApplyStatement(unit, r) ==
    /\ SetSess(r.S)
    /\ arg' = [op |-> "enter", unit |-> unit]
    /\ res' = [ok |-> r.ok, stage |-> r.stage, err |-> r.err, left |-> r.left.scopes,
               typed |-> r.typed, generated |-> r.generated]
    /\ hist' = hist + 1
    /\ UNCHANGED <<pc, ast, module, error>>

\* main.cpp 66-79 on a statement that calls a function template
EnterStatement ==
    /\ ~Stopped
    /\ hist < MaxBodyUnits
    /\ \E unit \in BodyUnits : ApplyStatement(unit, Walk("RunUnit", <<Sess, unit>>))

SpecBodies == InitBodies /\ [][EnterStatement]_vars

\* C24: when a statement has passed type inference, the Cache after code
\* generation (of the instantiations and of the statement, as far as it
\* went) is the Cache type inference left: the same templates and the same
\* instantiations, each with the bindings its Type Scope snapshot had.
C24_CodeGenReadsCache ==
    arg.op = "enter" /\ res.stage # "type" => res.generated = res.typed

\* C25: when code generation starts for a statement, every Instantiation
\* in the Cache has a return type other than Unset and a Type Scope
\* snapshot, whatever the statements before it did.
C25_InstantiationsResolved ==
    arg.op = "enter" /\ res.stage # "type" =>
        \A i \in 1..Len(res.typed.instantiations) :
            /\ res.typed.instantiations[i].return_type # Prim(Unset)
            /\ ~res.typed.instantiations[i].null_scope

\* C26: at the prompt the names bound in the global Type Scope are the
\* names bound in the global Value Scope.
C26_GlobalNamesAgree ==
    ~Stopped =>
        /\ Len(scopes) >= 1
        /\ DOMAIN frames[GlobalDefineScope].vars = DOMAIN scopes[1]

====
